---- MODULE Spec2Model ----
(***************************************************************************)
(* A model of the recursive-descent XML 1.0 parser of matsune/xml         *)
(* (parser.go).  The parser is a struct holding a scanner (an immutable    *)
(* rune buffer `source` and a mutable `cursor`) and the label `parsing`.   *)
(* Every production parseXxx is an operator from a parser state to a       *)
(* result carrying the parser state it leaves behind, the error flag, the  *)
(* returned node and the diagnostic.  One action per production applies    *)
(* it to a freshly constructed parser, as the unit tests do.               *)
(***************************************************************************)
EXTENDS Integers, Sequences, FiniteSets, TLC

VARIABLES source, frags, cursor, parsing, op, ret

vars == <<source, frags, cursor, parsing, op, ret>>

(***************************************************************************)
(* Bounds of the model.                                                    *)
(***************************************************************************)
MaxTok == 3

(***************************************************************************)
(* Code points are one-character strings; the source is a string.          *)
(***************************************************************************)
EOF == "<EOF>"

Lower == {"a","b","c","d","e","f","g","h","i","j","k","l","m","n","o","p","q","r","s","t","u","v","w","x","y","z"}
Upper == {"A","B","C","D","E","F","G","H","I","J","K","L","M","N","O","P","Q","R","S","T","U","V","W","X","Y","Z"}
Digits == {"0","1","2","3","4","5","6","7","8","9"}
PubidPunct == {"-","'","(",")","+",",",".","/",":","=","?",";","!","*","#","@","$","_","%"}

isSpace(r) == r \in {" ", "\t", "\r", "\n"}
isQuote(r) == r \in {"'", "\""}
isNum(r) == r \in Digits
\* parseEncName accepts "UTF-8" through isAlpha (parser.go 1719-1726 and the
\* encoding tests of parser_test.go): letters outside a-f are alphabetic
isAlpha(r) == r \in Lower \cup Upper
isLetter(r) == r \in Lower \cup Upper
isDigit(r) == r \in Digits
isCombining(r) == r \in {}
isExtender(r) == r \in {}
isChar(r) == r # EOF /\ r # "\f"
isPubidChar(r) == r \in {" ", "\r", "\n"} \cup Lower \cup Upper \cup Digits \cup PubidPunct
isNameChar(r) == isLetter(r) \/ isDigit(r) \/ r \in {".", "-", "_", ":"} \/ isCombining(r) \/ isExtender(r)

(***************************************************************************)
(* Results.  Nil is the nil pointer / nil interface; NoErr the nil error.  *)
(***************************************************************************)
Nil == [t |-> "nil"]
NoErr == [parsing |-> "", pos |-> -1, msg |-> ""]

Ok(p, v) == [p |-> p, err |-> FALSE, val |-> v, at |-> NoErr]

\* p.error(err): the diagnostic carries the current label and position
error(p, msg) == [parsing |-> p.parsing, pos |-> p.cursor, msg |-> msg]

Fail(p, v, msg) == [p |-> p, err |-> TRUE, val |-> v, at |-> error(p, msg)]

\* an error returned by a callee, passed on with this production's zero value
Pass(r, v) == [r EXCEPT !.val = v]

\* a loop iteration that neither exits nor advances the cursor never ends
Hang(p) == [p |-> [p EXCEPT !.hang = TRUE], err |-> TRUE, val |-> Nil, at |-> error(p, "hang")]

\* LET x == v IN ...: the value v bound to the parameter of In
Let(v, In(_)) == In(v)

(***************************************************************************)
(* Scanner                                                                 *)
(***************************************************************************)
isEnd(p) == p.cursor >= Len(source)

Get(p) == IF isEnd(p) THEN EOF ELSE SubSeq(source, p.cursor + 1, p.cursor + 1)

Step(p) == [p EXCEPT !.cursor = @ + 1]

StepN(p, n) == [p EXCEPT !.cursor = @ + n]

setCursor(p, cur) == [p EXCEPT !.cursor = cur]

(***************************************************************************)
(* parser helpers                                                          *)
(***************************************************************************)
setParsing(p, new) == [p EXCEPT !.parsing = new]

\* the label put back by a statement before the successful return only
restoreParsing_onSuccess(r, old) == IF r.err THEN r ELSE [r EXCEPT !.p.parsing = old]

\* the function returned by setParsing, run by defer on every exit
restoreParsing(r, old) == [r EXCEPT !.p.parsing = old]

\* a labeled production called on p has returned r: remember the production, the
\* label before the call, the label after it and whether it failed
labeled(p, prod, r) ==
  [r EXCEPT !.p.exits = Append(@, [prod |-> prod, before |-> p.parsing,
                                   after |-> r.p.parsing, failed |-> r.err])]

Test(p, r) == Get(p) = r

Must(p, r) ==
  IF ~Test(p, r) THEN Fail(p, Nil, "expected char") ELSE Ok(Step(p), Nil)

Tests(p, str) ==
  Let(p.cursor, LAMBDA i :
  Let(i + Len(str), LAMBDA e :
     IF Len(source) < e THEN FALSE ELSE SubSeq(source, i + 1, e) = str))

\* the code points of the model that take two bytes in UTF-8
Wide == {"é"}

\* len of a Go string: its length in bytes
RECURSIVE len(_)
len(str) ==
  IF str = "" THEN 0
  ELSE (IF SubSeq(str, 1, 1) \in Wide THEN 2 ELSE 1) + len(SubSeq(str, 2, Len(str)))

Musts(p, str) ==
  IF ~Tests(p, str) THEN Fail(p, Nil, "expected literal") ELSE Ok(StepN(p, len(str)), Nil)

\* the second alternative of an ordered choice starts on p: remember the production,
\* where the first alternative started and failed, and where the cursor is now
Alt(p, prod, cur, failed) ==
  [p EXCEPT !.alts = Append(@, [prod |-> prod, first |-> cur, failed |-> failed,
                                 second |-> p.cursor])]

(***************************************************************************)
(* White space, names                                                      *)
(***************************************************************************)
RECURSIVE skipSpace(_)
skipSpace(p) == IF isSpace(Get(p)) THEN skipSpace(Step(p)) ELSE p

parseSpace(p) ==
  IF ~isSpace(Get(p)) THEN Fail(p, Nil, "expected space") ELSE Ok(skipSpace(p), Nil)

isNameCharAt(p) ==
  \/ isLetter(Get(p)) \/ isDigit(Get(p))
  \/ Test(p, ".") \/ Test(p, "-") \/ Test(p, "_") \/ Test(p, ":")
  \/ isCombining(Get(p)) \/ isExtender(Get(p))

RECURSIVE nameLoop(_, _)
nameLoop(p, n) ==
  IF isNameCharAt(p) THEN nameLoop(Step(p), n \o Get(p)) ELSE Ok(p, n)

parseName(p) ==
  IF isLetter(Get(p)) \/ Test(p, "_") \/ Test(p, ":")
  THEN nameLoop(Step(p), Get(p))
  ELSE Fail(p, "", "invalid letter for name")

parseQuote(p) ==
  Let(Get(p), LAMBDA r :
     IF isQuote(r) THEN Ok(Step(p), r) ELSE Fail(p, r, "expected ' or \""))

(***************************************************************************)
(* References                                                              *)
(***************************************************************************)
CharRefNode(prefix, value) == [t |-> "CharRef", Prefix |-> prefix, Value |-> value]

RECURSIVE hexDigits(_, _)
hexDigits(p, v) ==
  Let(Get(p), LAMBDA r :
     IF isNum(r) \/ isAlpha(r) THEN hexDigits(Step(p), v \o r) ELSE Ok(p, v))

RECURSIVE decDigits(_, _)
decDigits(p, v) ==
  Let(Get(p), LAMBDA r :
     IF isNum(r) THEN decDigits(Step(p), v \o r) ELSE Ok(p, v))

\* the end of parseCharRef taking a ';' when there is one, never demanding it
charRefEnd_optional(d, prefix) ==
  Ok(IF Test(d.p, ";") THEN Step(d.p) ELSE d.p, CharRefNode(prefix, d.val))

charRefEnd(d, prefix) ==
  Let(Must(d.p, ";"), LAMBDA m :
     IF m.err THEN m ELSE Ok(m.p, CharRefNode(prefix, d.val)))

parseCharRef(p) ==
  IF Tests(p, "&#x")
  THEN Let(StepN(p, Len("&#x")), LAMBDA q :
       Let(Get(q), LAMBDA r :
          IF ~isNum(r) /\ ~isAlpha(r)
          THEN Fail(q, Nil, "expected number or alphabet character")
          ELSE charRefEnd(hexDigits(q, ""), "&#x")))
  ELSE IF Tests(p, "&#")
  THEN Let(StepN(p, Len("&#")), LAMBDA q :
       Let(Get(q), LAMBDA r :
          IF ~isNum(r)
          THEN Fail(q, Nil, "expected number")
          ELSE charRefEnd(decDigits(q, ""), "&#")))
  ELSE Fail(p, Nil, "expected '&#x' or '&#'")

\* parseEntityRef putting the cursor back on every failing return
parseEntityRef_restoring(p) ==
  Let(Must(p, "&"), LAMBDA a :
  Let(parseName(a.p), LAMBDA n :
  Let(Must(n.p, ";"), LAMBDA s :
     IF a.err THEN a
     ELSE IF n.err THEN [Pass(n, Nil) EXCEPT !.p.cursor = p.cursor]
     ELSE IF s.err THEN [s EXCEPT !.p.cursor = p.cursor]
     ELSE Ok(s.p, [t |-> "EntityRef", Name |-> n.val]))))

parseEntityRef(p) ==
  Let(Must(p, "&"), LAMBDA a :
     IF a.err THEN a
     ELSE Let(parseName(a.p), LAMBDA n :
             IF n.err THEN Pass(n, Nil)
             ELSE Let(Must(n.p, ";"), LAMBDA s :
                     IF s.err THEN s
                     ELSE Ok(s.p, [t |-> "EntityRef", Name |-> n.val]))))

parsePERef(p) ==
  Let(Must(p, "%"), LAMBDA a :
     IF a.err THEN a
     ELSE Let(parseName(a.p), LAMBDA n :
             IF n.err THEN Pass(n, Nil)
             ELSE Let(Must(n.p, ";"), LAMBDA s :
                     IF s.err THEN s
                     ELSE Ok(s.p, [t |-> "PERef", Name |-> n.val]))))

\* parseReference trying CharRef first and EntityRef second
parseReference_charRefFirst(p) ==
  Let(p.cursor, LAMBDA cur :
  Let(parseCharRef(p), LAMBDA c :
     IF c.err
     THEN parseEntityRef(Alt(setCursor(c.p, cur), "parseReference", cur, c.p.cursor))
     ELSE c))

parseReference(p) ==
  Let(p.cursor, LAMBDA cur :
  Let(parseEntityRef(p), LAMBDA e :
     IF e.err
     THEN parseCharRef(Alt(setCursor(e.p, cur), "parseReference", cur, e.p.cursor))
     ELSE e))

(***************************************************************************)
(* Literals                                                                *)
(***************************************************************************)
Text(str) == [t |-> "Text", Value |-> str]

\* if len(str) > 0 { res = append(res, str) }
flush(res, str) == IF Len(str) > 0 THEN Append(res, Text(str)) ELSE res

\* the end of both literal loops: flush the pending text, require the quote
literalEnd(p, quote, res, str) ==
  Let(Must(p, quote), LAMBDA m :
     IF m.err THEN m ELSE Ok(m.p, flush(res, str)))

RECURSIVE entityValueLoop(_, _, _, _)
entityValueNext(p, q, quote, res, str) ==
  IF q.cursor <= p.cursor THEN Hang(q) ELSE entityValueLoop(q, quote, res, str)

entityValueLoop(p, quote, res, str) ==
  IF Test(p, quote) \/ isEnd(p) THEN literalEnd(p, quote, res, str)
  ELSE Let(p.cursor, LAMBDA cur :
          IF Test(p, "&")
          THEN Let(parseEntityRef(p), LAMBDA e :
                  IF e.err
                  THEN Let(parseCharRef(Alt(setCursor(e.p, cur), "parseEntityValue",
                                                 cur, e.p.cursor)), LAMBDA c :
                          IF c.err THEN Fail(c.p, Nil, "error AttValue")
                          ELSE entityValueNext(p, c.p, quote, Append(flush(res, str), c.val), ""))
                  ELSE entityValueNext(p, e.p, quote, Append(flush(res, str), e.val), ""))
          ELSE IF Test(p, "%")
          THEN Let(parsePERef(p), LAMBDA r :
                  IF r.err THEN Pass(r, Nil)
                  ELSE entityValueNext(p, r.p, quote, Append(flush(res, str), r.val), ""))
          ELSE entityValueNext(p, Step(p), quote, res, str \o Get(p)))

\* a (non-nil) EntityValue / AttValue slice
Literal(tag, r) ==
  IF r.err THEN Pass(r, Nil) ELSE Ok(r.p, [t |-> tag, Segs |-> r.val])

parseEntityValue(p) ==
  Let(parseQuote(p), LAMBDA q :
     IF q.err THEN Pass(q, Nil)
     ELSE Literal("EntityValue", entityValueLoop(q.p, q.val, <<>>, "")))

RECURSIVE attValueLoop(_, _, _, _)
attValueNext(p, q, quote, res, str) ==
  IF q.cursor <= p.cursor THEN Hang(q) ELSE attValueLoop(q, quote, res, str)

\* the loop of parseAttValue taking '<' as character data
attValueLoop_allowLt(p, quote, res, str) ==
  IF Test(p, quote) \/ isEnd(p) THEN literalEnd(p, quote, res, str)
  ELSE IF Test(p, "&")
  THEN Let(parseReference(p), LAMBDA r :
          IF r.err THEN Pass(r, Nil)
          ELSE attValueNext(p, r.p, quote, Append(flush(res, str), r.val), ""))
  ELSE attValueNext(p, Step(p), quote, res, str \o Get(p))

attValueLoop(p, quote, res, str) ==
  IF Test(p, "<") THEN Fail(p, Nil, "unexpected '<'")
  ELSE IF Test(p, quote) \/ isEnd(p) THEN literalEnd(p, quote, res, str)
  ELSE IF Test(p, "&")
  THEN Let(parseReference(p), LAMBDA r :
          IF r.err THEN Pass(r, Nil)
          ELSE attValueNext(p, r.p, quote, Append(flush(res, str), r.val), ""))
  ELSE attValueNext(p, Step(p), quote, res, str \o Get(p))

parseAttValue(p) ==
  Let(parseQuote(p), LAMBDA q :
     IF q.err THEN Pass(q, Nil)
     ELSE Literal("AttValue", attValueLoop(q.p, q.val, <<>>, "")))

RECURSIVE systemLiteralLoop(_, _, _)
systemLiteralLoop(p, quote, lit) ==
  IF Test(p, quote) THEN Ok(Step(p), lit)
  ELSE Let(Step(p), LAMBDA q :
          IF isEnd(q) THEN Fail(q, "", "could not find quote")
          ELSE IF q.cursor <= p.cursor THEN Hang(q)
          ELSE systemLiteralLoop(q, quote, lit \o Get(p)))

parseSystemLiteral(p) ==
  Let(parseQuote(p), LAMBDA q :
     IF q.err THEN Pass(q, "") ELSE systemLiteralLoop(q.p, q.val, ""))

RECURSIVE pubidLiteralLoop(_, _, _)
pubidLiteralLoop(p, quote, lit) ==
  Let(Get(p), LAMBDA r :
     IF isPubidChar(r) /\ ~(r = "'" /\ quote = "'")
     THEN pubidLiteralLoop(Step(p), quote, lit \o r)
     ELSE Let(Must(p, quote), LAMBDA m :
             IF m.err THEN Pass(m, "") ELSE Ok(m.p, lit)))

parsePubidLiteral(p) ==
  Let(parseQuote(p), LAMBDA q :
     IF q.err THEN Pass(q, "") ELSE pubidLiteralLoop(q.p, q.val, ""))

(***************************************************************************)
(* Comments, processing instructions, CDATA sections                       *)
(***************************************************************************)
CommentNode(str) == [t |-> "Comment", Value |-> str]

RECURSIVE commentLoop(_, _)
\* the loop of parseComment running to the first "-->", "--" being text
commentLoop_untilClose(p, str) ==
  IF Tests(p, "-->") THEN Ok(StepN(p, Len("-->")), CommentNode(str))
  ELSE IF ~isChar(Get(p)) THEN Fail(p, CommentNode(""), "unexpected character")
  ELSE commentLoop(Step(p), str \o Get(p))

commentLoop(p, str) ==
  IF Tests(p, "--")
  THEN Let(Musts(p, "-->"), LAMBDA e :
          IF e.err THEN Pass(e, CommentNode("")) ELSE Ok(e.p, CommentNode(str)))
  ELSE Let(Get(p), LAMBDA r :
       Let(Step(p), LAMBDA q :
          IF ~isChar(r) THEN Fail(p, CommentNode(""), "unexpected character")
          ELSE IF q.cursor <= p.cursor THEN Hang(q)
          ELSE commentLoop(q, str \o r)))

commentBody(p) ==
  Let(Musts(p, "<!--"), LAMBDA m :
     IF m.err THEN Pass(m, CommentNode("")) ELSE commentLoop(m.p, ""))

parseComment(p) ==
  labeled(p, "parseComment",
          restoreParsing(commentBody(setParsing(p, "Comment")), p.parsing))

\* strings.ContainsAny(n, chars)
ContainsAny(n, chars) == \E i \in 1..Len(n) : SubSeq(n, i, i) \in chars

parsePITarget(p) ==
  Let(parseName(p), LAMBDA n :
     IF n.err THEN Pass(n, "")
     ELSE IF ContainsAny(n.val, {"x", "m", "l", "X", "M", "L"})
     THEN Fail(n.p, "", "PI target can not contain 'xml'")
     ELSE n)

RECURSIVE piLoop(_, _)
piLoop(p, ins) ==
  IF ~Tests(p, "?>") /\ ~isEnd(p) /\ isChar(Get(p))
  THEN piLoop(Step(p), ins \o Get(p))
  ELSE Ok(p, ins)

piBody(p) ==
  Let(Musts(p, "<?"), LAMBDA m :
     IF m.err THEN m
     ELSE Let(parsePITarget(m.p), LAMBDA tg :
             IF tg.err THEN Pass(tg, Nil)
             ELSE Let(IF isSpace(Get(tg.p)) THEN piLoop(skipSpace(tg.p), "")
                           ELSE Ok(tg.p, ""), LAMBDA i :
                  Let(Musts(i.p, "?>"), LAMBDA e :
                     IF e.err THEN e
                     ELSE Ok(e.p, [t |-> "PI", Target |-> tg.val, Instruction |-> i.val])))))

parsePI(p) ==
  labeled(p, "parsePI",
          restoreParsing(piBody(setParsing(p, "NOTATION")), p.parsing))

CDataNode(str) == [t |-> "CData", Value |-> str]

RECURSIVE cdSectLoop(_, _)
cdSectLoop(p, str) ==
  IF Tests(p, "]]>") THEN Ok(StepN(p, Len("]]>")), CDataNode(str))
  ELSE IF isEnd(p) THEN Fail(p, CDataNode(""), "not found CDSect close tag")
  ELSE Let(Step(p), LAMBDA q :
          IF q.cursor <= p.cursor THEN Hang(q) ELSE cdSectLoop(q, str \o Get(p)))

parseCDSect(p) ==
  Let(Musts(p, "<![CDATA["), LAMBDA m :
     IF m.err THEN Pass(m, CDataNode("")) ELSE cdSectLoop(m.p, ""))

\* parseMisc accepting white space without skipping it
parseMisc_noSkip(p) ==
  IF Tests(p, "<!--")
  THEN Let(parseComment(p), LAMBDA c : IF c.err THEN Pass(c, Nil) ELSE c)
  ELSE IF Tests(p, "<?")
  THEN parsePI(p)
  ELSE IF isSpace(Get(p)) THEN Ok(p, Nil)
  ELSE Fail(p, Nil, "unknown misc type")

\* Misc ::= Comment | PI | S
parseMisc(p) ==
  IF Tests(p, "<!--")
  THEN Let(parseComment(p), LAMBDA c : IF c.err THEN Pass(c, Nil) ELSE c)
  ELSE IF Tests(p, "<?")
  THEN parsePI(p)
  ELSE IF isSpace(Get(p)) THEN Ok(skipSpace(p), Nil)
  ELSE Fail(p, Nil, "unknown misc type")

\* the three Misc loops of parse and parseProlog
RECURSIVE miscLoop(_, _)
\* a Misc loop that leaves the cursor where parseMisc failed
miscLoop_noRestore(p, list) ==
  Let(parseMisc(p), LAMBDA m :
     IF m.err THEN Ok(m.p, list)
     ELSE IF m.p.cursor <= p.cursor THEN Hang(m.p)
     ELSE miscLoop(m.p, IF m.val # Nil THEN Append(list, m.val) ELSE list))

\* a Misc loop that reports the error of parseMisc instead of stopping
miscLoop_reporting(p, list) ==
  Let(parseMisc(p), LAMBDA m :
     IF m.err THEN m
     ELSE IF m.p.cursor <= p.cursor THEN Hang(m.p)
     ELSE miscLoop(m.p, IF m.val # Nil THEN Append(list, m.val) ELSE list))

miscLoop(p, list) ==
  Let(p.cursor, LAMBDA cur :
  Let(parseMisc(p), LAMBDA m :
     IF m.err THEN Ok(setCursor(m.p, cur), list)
     ELSE IF m.p.cursor <= p.cursor THEN Hang(m.p)
     ELSE miscLoop(m.p, IF m.val # Nil THEN Append(list, m.val) ELSE list)))

(***************************************************************************)
(* XML declaration                                                         *)
(***************************************************************************)
parseEq(p) ==
  Let(Must(skipSpace(p), "="), LAMBDA m :
     IF m.err THEN m ELSE Ok(skipSpace(m.p), Nil))

isVerChar(p) ==
  Let(Get(p), LAMBDA r :
     isNum(r) \/ isAlpha(r) \/ Test(p, "_") \/ Test(p, ".") \/ Test(p, ":") \/ Test(p, "-"))

RECURSIVE versionNumLoop(_, _)
versionNumLoop(p, str) ==
  IF isVerChar(p) THEN versionNumLoop(Step(p), str \o Get(p)) ELSE Ok(p, str)

parseVersionNum(p) ==
  IF ~isVerChar(p) THEN Fail(p, "", "unexpected version number character")
  ELSE versionNumLoop(Step(p), Get(p))

parseVersion(p) ==
  Let(parseSpace(p), LAMBDA s :
     IF s.err THEN Pass(s, "")
     ELSE Let(Musts(s.p, "version"), LAMBDA k :
             IF k.err THEN Pass(k, "")
             ELSE Let(parseEq(k.p), LAMBDA e :
                     IF e.err THEN Pass(e, "")
                     ELSE Let(parseQuote(e.p), LAMBDA q :
                             IF q.err THEN Pass(q, "")
                             ELSE Let(parseVersionNum(q.p), LAMBDA v :
                                     IF v.err THEN v
                                     ELSE Let(Must(v.p, q.val), LAMBDA c :
                                             IF c.err THEN Pass(c, "")
                                             ELSE Ok(c.p, v.val)))))))

RECURSIVE encNameLoop(_, _)
encNameLoop(p, str) ==
  IF isAlpha(Get(p)) \/ isNum(Get(p)) \/ Test(p, ".") \/ Test(p, "_") \/ Test(p, "-")
  THEN encNameLoop(Step(p), str \o Get(p))
  ELSE Ok(p, str)

parseEncName(p) ==
  Let(Get(p), LAMBDA r :
     IF ~isAlpha(r) THEN Fail(p, "", "Encoding name contains non alphabet")
     ELSE encNameLoop(Step(p), r))

parseEncoding(p) ==
  Let(parseSpace(p), LAMBDA s :
     IF s.err THEN Pass(s, "")
     ELSE Let(Musts(s.p, "encoding"), LAMBDA k :
             IF k.err THEN Pass(k, "")
             ELSE Let(parseEq(k.p), LAMBDA e :
                     IF e.err THEN Pass(e, "")
                     ELSE Let(parseQuote(e.p), LAMBDA q :
                             IF q.err THEN Pass(q, "")
                             ELSE Let(parseEncName(q.p), LAMBDA n :
                                     IF n.err THEN n
                                     ELSE Let(Must(n.p, q.val), LAMBDA c :
                                             IF c.err THEN Pass(c, "")
                                             ELSE Ok(c.p, n.val)))))))

standaloneValue(p, quote) ==
  Let(IF Tests(p, "yes") THEN Ok(StepN(p, 3), TRUE)
           ELSE IF Tests(p, "no") THEN Ok(StepN(p, 2), FALSE)
           ELSE Fail(p, FALSE, "expected 'yes' or 'no'"), LAMBDA y :
     IF y.err THEN y
     ELSE Let(Must(y.p, quote), LAMBDA c :
             IF c.err THEN Pass(c, FALSE) ELSE Ok(c.p, y.val)))

parseStandalone(p) ==
  Let(parseSpace(p), LAMBDA s :
     IF s.err THEN Pass(s, FALSE)
     ELSE Let(Musts(s.p, "standalone"), LAMBDA k :
             IF k.err THEN Pass(k, FALSE)
             ELSE Let(parseEq(k.p), LAMBDA e :
                     IF e.err THEN Pass(e, FALSE)
                     ELSE Let(parseQuote(e.p), LAMBDA q :
                             IF q.err THEN Pass(q, FALSE)
                             ELSE standaloneValue(q.p, q.val)))))

XMLDeclNode(ver, enc, std) ==
  [t |-> "XMLDecl", Version |-> ver, Encoding |-> enc, Standalone |-> std]

\* the tail of parseXmlDecl demanding the standalone declaration
xmlDeclStandalone_required(p, ver, enc) ==
  Let(parseStandalone(p), LAMBDA std :
     IF std.err THEN Pass(std, Nil)
     ELSE Let(Musts(skipSpace(std.p), "?>"), LAMBDA e :
             IF e.err THEN e ELSE Ok(e.p, XMLDeclNode(ver, enc, std.val))))

\* the tail of parseXmlDecl after the optional encoding: SDDecl? S? '?>'
xmlDeclStandalone(p, ver, enc) ==
  Let(p.cursor, LAMBDA cur :
  Let(IF Tests(skipSpace(p), "standalone")
             THEN parseStandalone(setCursor(p, cur))
             ELSE Ok(setCursor(p, cur), FALSE), LAMBDA std :
     IF std.err THEN Pass(std, Nil)
     ELSE Let(Musts(skipSpace(std.p), "?>"), LAMBDA e :
             IF e.err THEN e ELSE Ok(e.p, XMLDeclNode(ver, enc, std.val)))))

xmlDeclBody(p) ==
  Let(Musts(p, "<?xml"), LAMBDA m :
     IF m.err THEN m
     ELSE Let(parseVersion(m.p), LAMBDA ver :
             IF ver.err THEN Pass(ver, Nil)
             ELSE Let(ver.p.cursor, LAMBDA cur :
                  Let(IF Tests(skipSpace(ver.p), "encoding")
                             THEN parseEncoding(setCursor(ver.p, cur))
                             ELSE Ok(setCursor(ver.p, cur), ""), LAMBDA enc :
                     IF enc.err THEN Pass(enc, Nil)
                     ELSE xmlDeclStandalone(enc.p, ver.val, enc.val)))))

parseXmlDecl(p) ==
  labeled(p, "parseXmlDecl",
          restoreParsing(xmlDeclBody(setParsing(p, "XML Declaration")), p.parsing))

(***************************************************************************)
(* Elements and their content                                              *)
(***************************************************************************)
parseAttribute(p) ==
  Let(parseName(p), LAMBDA n :
     IF n.err THEN Pass(n, Nil)
     ELSE Let(parseEq(n.p), LAMBDA e :
             IF e.err THEN e
             ELSE Let(parseAttValue(e.p), LAMBDA v :
                     IF v.err THEN Pass(v, Nil)
                     ELSE Ok(v.p, [t |-> "Attribute", Name |-> n.val, AttValue |-> v.val]))))

parseETag(p) ==
  Let(Musts(p, "</"), LAMBDA m :
     IF m.err THEN Pass(m, "")
     ELSE Let(parseName(m.p), LAMBDA n :
             IF n.err THEN n
             ELSE Let(Must(skipSpace(n.p), ">"), LAMBDA e :
                     IF e.err THEN Pass(e, "") ELSE Ok(e.p, n.val))))

RECURSIVE isOnlySpaces(_)
isOnlySpaces(str) ==
  IF Len(str) = 0 THEN TRUE
  ELSE IF ~isSpace(SubSeq(str, 1, 1)) THEN FALSE
  ELSE isOnlySpaces(SubSeq(str, 2, Len(str)))

\* the flush of the pending text without the test for white space
flushCharData_keepSpaces(res, charData) ==
  IF Len(charData) > 0 THEN Append(res, Text(charData)) ELSE res

\* if len(charData) > 0 { if !isOnlySpaces(charData) { res = append(res, charData) } }
flushCharData(res, charData) ==
  IF Len(charData) > 0 /\ ~isOnlySpaces(charData) THEN Append(res, Text(charData)) ELSE res

ElementNode(name, attrs, contents, empty) ==
  [t |-> "Element", Name |-> name, Attrs |-> attrs, Contents |-> contents,
   IsEmptyTag |-> empty]

RECURSIVE parseElement(_)
RECURSIVE parseContents(_)
RECURSIVE contentsLoop(_, _, _)
RECURSIVE attributeLoop(_, _)

attributeLoop(p, attrs) ==
  IF ~isSpace(Get(p)) THEN Ok(p, attrs)
  ELSE Let(skipSpace(p), LAMBDA q :
          IF Test(q, ">") \/ Tests(q, "/>") \/ isEnd(q) THEN Ok(q, attrs)
          ELSE Let(parseAttribute(q), LAMBDA a :
                  IF a.err THEN Pass(a, Nil)
                  ELSE IF a.p.cursor <= p.cursor THEN Hang(a.p)
                  ELSE attributeLoop(a.p, Append(attrs, a.val))))

\* a comparison of the two names by their lengths only
nameMismatch_byLength(endName, name) == Len(endName) # Len(name)

\* endName != e.Name
nameMismatch(endName, name) == endName # name

\* parseElement from the deferred second label on: attributes, then '>' or '/>'
elementTag(p, name) ==
  Let(attributeLoop(p, <<>>), LAMBDA as :
     IF as.err THEN as
     ELSE IF Test(as.p, ">")
     THEN Let(parseContents(Step(as.p)), LAMBDA c :
          Let(parseETag(c.p), LAMBDA e :
             IF e.err THEN Pass(e, Nil)
             ELSE IF nameMismatch(e.val, name)
             THEN Fail(e.p, Nil, "EndTag name does not match with StartTag name")
             ELSE Ok(e.p, ElementNode(name, as.val, c.val, FALSE))))
     ELSE IF Tests(as.p, "/>")
     THEN Ok(StepN(as.p, Len("/>")), ElementNode(name, as.val, <<>>, TRUE))
     ELSE Fail(as.p, Nil, "not found element close tag"))

\* parseElement keeping the label Element for the whole element
elementBody_oneLabel(p) ==
  Let(Must(p, "<"), LAMBDA m :
     IF m.err THEN m
     ELSE Let(parseName(m.p), LAMBDA n :
             IF n.err THEN Pass(n, Nil) ELSE elementTag(n.p, n.val)))

elementBody(p) ==
  Let(Must(p, "<"), LAMBDA m :
     IF m.err THEN m
     ELSE Let(parseName(m.p), LAMBDA n :
             IF n.err THEN Pass(n, Nil)
             ELSE restoreParsing(elementTag(setParsing(n.p, n.val \o " tag"), n.val),
                                 n.p.parsing)))

parseElement(p) ==
  labeled(p, "parseElement",
          restoreParsing(elementBody(setParsing(p, "Element")), p.parsing))

contentsEnd(p, res, charData) == Ok(p, flushCharData(res, charData))

contentsNext(p, q, res, charData) ==
  IF q.cursor <= p.cursor THEN Hang(q) ELSE contentsLoop(q, res, charData)

\* '<!': CDSect, or Comment from the same position
contentsBang(p) ==
  Let(p.cursor, LAMBDA cur :
  Let(parseCDSect(p), LAMBDA cd :
     IF cd.err THEN parseComment(Alt(setCursor(cd.p, cur), "parseContents", cur, cd.p.cursor))
     ELSE cd))

\* the content loop leaving the cursor where the failed construct stopped
contentsLoop_noRestore(p, res, charData) ==
  Let(p.cursor, LAMBDA cur :
     IF Test(p, "&")
     THEN Let(parseReference(p), LAMBDA r :
             IF r.err THEN contentsEnd(r.p, res, charData)
             ELSE contentsNext(p, r.p, Append(flushCharData(res, charData), r.val), ""))
     ELSE IF Test(p, "<")
     THEN Let(IF Tests(p, "<!") THEN contentsBang(p)
                   ELSE IF Tests(p, "<?") THEN parsePI(p)
                   ELSE parseElement(p), LAMBDA i :
             IF i.err THEN contentsEnd(i.p, res, charData)
             ELSE contentsNext(p, i.p, Append(flushCharData(res, charData), i.val), ""))
     ELSE IF isEnd(p) \/ Tests(p, "]]>") THEN contentsEnd(p, res, charData)
     ELSE contentsNext(p, Step(p), res, charData \o Get(p)))

contentsLoop(p, res, charData) ==
  Let(p.cursor, LAMBDA cur :
     IF Test(p, "&")
     THEN Let(parseReference(p), LAMBDA r :
             IF r.err THEN contentsEnd(setCursor(r.p, cur), res, charData)
             ELSE contentsNext(p, r.p, Append(flushCharData(res, charData), r.val), ""))
     ELSE IF Test(p, "<")
     THEN Let(IF Tests(p, "<!") THEN contentsBang(p)
                   ELSE IF Tests(p, "<?") THEN parsePI(p)
                   ELSE parseElement(p), LAMBDA i :
             IF i.err THEN contentsEnd(setCursor(i.p, cur), res, charData)
             ELSE contentsNext(p, i.p, Append(flushCharData(res, charData), i.val), ""))
     ELSE IF isEnd(p) \/ Tests(p, "]]>") THEN contentsEnd(p, res, charData)
     ELSE contentsNext(p, Step(p), res, charData \o Get(p)))

parseContents(p) == contentsLoop(p, <<>>, "")

(***************************************************************************)
(* Element type declarations and content models                            *)
(***************************************************************************)
\* ('?' | '*' | '+')? : the suffix rune, "" for the nil pointer
suffixOf(p) == IF Test(p, "?") \/ Test(p, "*") \/ Test(p, "+") THEN Get(p) ELSE ""

afterSuffix(p) == IF Test(p, "?") \/ Test(p, "*") \/ Test(p, "+") THEN Step(p) ELSE p

CPNode(name, group, suffix) ==
  [t |-> "CP", Name |-> name, ChoiceSeq |-> group, Suffix |-> suffix]

ChildrenNode(group, suffix) == [t |-> "Children", ChoiceSeq |-> group, Suffix |-> suffix]

RECURSIVE parseCP(_)
RECURSIVE parseChoice(_)
RECURSIVE parseSeq(_)
RECURSIVE choiceLoop(_, _)
RECURSIVE seqLoop(_, _)

\* cp ::= '(' ... : Choice, or Seq from the same position
cpGroup(p) ==
  Let(p.cursor, LAMBDA cur :
  Let(parseChoice(p), LAMBDA choice :
     IF choice.err THEN parseSeq(Alt(setCursor(choice.p, cur), "parseCP", cur, choice.p.cursor))
     ELSE choice))

parseCP(p) ==
  IF Test(p, "(")
  THEN Let(cpGroup(p), LAMBDA g :
          IF g.err THEN g
          ELSE Ok(afterSuffix(g.p), CPNode("", g.val, suffixOf(g.p))))
  ELSE Let(parseName(p), LAMBDA n :
          IF n.err THEN Pass(n, Nil)
          ELSE Ok(afterSuffix(n.p), CPNode(n.val, Nil, suffixOf(n.p))))

choiceLoop(p, cps) ==
  Let(skipSpace(p), LAMBDA q :
     IF ~Test(q, "|")
     THEN Let(Must(q, ")"), LAMBDA e :
             IF e.err THEN e ELSE Ok(e.p, [t |-> "Choice", CPs |-> cps]))
     ELSE Let(parseCP(Step(q)), LAMBDA cp :
             IF cp.err THEN cp
             ELSE IF cp.p.cursor <= p.cursor THEN Hang(cp.p)
             ELSE choiceLoop(cp.p, Append(cps, cp.val))))

parseChoice(p) ==
  Let(Must(p, "("), LAMBDA m :
     IF m.err THEN m
     ELSE Let(parseCP(skipSpace(m.p)), LAMBDA cp :
             IF cp.err THEN cp ELSE choiceLoop(cp.p, <<cp.val>>)))

seqLoop(p, cps) ==
  Let(skipSpace(p), LAMBDA q :
     IF ~Test(q, ",")
     THEN Let(Must(q, ")"), LAMBDA e :
             IF e.err THEN e ELSE Ok(e.p, [t |-> "Seq", CPs |-> cps]))
     ELSE Let(parseCP(Step(q)), LAMBDA cp :
             IF cp.err THEN cp
             ELSE IF cp.p.cursor <= p.cursor THEN Hang(cp.p)
             ELSE seqLoop(cp.p, Append(cps, cp.val))))

parseSeq(p) ==
  Let(Must(p, "("), LAMBDA m :
     IF m.err THEN m
     ELSE Let(parseCP(skipSpace(m.p)), LAMBDA cp :
             IF cp.err THEN cp ELSE seqLoop(cp.p, <<cp.val>>)))

\* parseChildren trying Seq first and Choice second
parseChildren_seqFirst(p) ==
  Let(p.cursor, LAMBDA cur :
  Let(parseSeq(p), LAMBDA s :
     IF ~s.err
     THEN Ok(afterSuffix(s.p), ChildrenNode(s.val, suffixOf(s.p)))
     ELSE Let(parseChoice(Alt(setCursor(s.p, cur), "parseChildren", cur, s.p.cursor)),
              LAMBDA choice :
             IF ~choice.err
             THEN Ok(afterSuffix(choice.p), ChildrenNode(choice.val, suffixOf(choice.p)))
             ELSE Fail(choice.p, Nil, "unknown error"))))

parseChildren(p) ==
  Let(p.cursor, LAMBDA cur :
  Let(parseChoice(p), LAMBDA choice :
     IF ~choice.err
     THEN Ok(afterSuffix(choice.p), ChildrenNode(choice.val, suffixOf(choice.p)))
     ELSE Let(parseSeq(Alt(setCursor(choice.p, cur), "parseChildren", cur,
                                choice.p.cursor)), LAMBDA s :
             IF ~s.err
             THEN Ok(afterSuffix(s.p), ChildrenNode(s.val, suffixOf(s.p)))
             ELSE Fail(s.p, Nil, "unknown error"))))

MixedNode(names) == [t |-> "Mixed", Names |-> names]

\* the end of parseMixed taking a '*' when there is one, never demanding it
mixedEnd_starOptional(p, names) ==
  Ok(IF Len(names) > 0 /\ Test(p, "*") THEN Step(p) ELSE p, MixedNode(names))

\* if len(m.Names) > 0 { Must('*') }
mixedEnd(p, names) ==
  IF Len(names) > 0
  THEN Let(Must(p, "*"), LAMBDA m :
          IF m.err THEN m ELSE Ok(m.p, MixedNode(names)))
  ELSE Ok(p, MixedNode(names))

RECURSIVE mixedLoop(_, _)
mixedLoop(p, names) ==
  Let(skipSpace(p), LAMBDA q :
     IF Test(q, ")") THEN mixedEnd(Step(q), names)
     ELSE IF isEnd(q) THEN Fail(q, Nil, "could not find ')'")
     ELSE Let(Must(q, "|"), LAMBDA m :
             IF m.err THEN m
             ELSE Let(parseName(skipSpace(m.p)), LAMBDA n :
                     IF n.err THEN Pass(n, Nil)
                     ELSE IF n.p.cursor <= p.cursor THEN Hang(n.p)
                     ELSE mixedLoop(n.p, Append(names, n.val)))))

parseMixed(p) ==
  Let(Must(p, "("), LAMBDA m :
     IF m.err THEN m
     ELSE Let(Musts(skipSpace(m.p), "#PCDATA"), LAMBDA k :
             IF k.err THEN k ELSE mixedLoop(k.p, <<>>)))

\* parseContentSpec without the reset of the cursor after parseMixed failed
parseContentSpec_noReset(p) ==
  IF Tests(p, "EMPTY") THEN Ok(StepN(p, Len("EMPTY")), [t |-> "EMPTY"])
  ELSE IF Tests(p, "ANY") THEN Ok(StepN(p, Len("ANY")), [t |-> "ANY"])
  ELSE Let(p.cursor, LAMBDA cur :
       Let(parseMixed(p), LAMBDA m :
          IF ~m.err THEN m
          ELSE parseChildren(Alt(m.p, "parseContentSpec", cur, m.p.cursor))))

\* parseContentSpec taking EMPTY and ANY only as a whole Name
parseContentSpec_wholeName(p) ==
  IF ~parseName(p).err /\ parseName(p).val = "EMPTY"
  THEN Ok(StepN(p, Len("EMPTY")), [t |-> "EMPTY"])
  ELSE IF ~parseName(p).err /\ parseName(p).val = "ANY"
  THEN Ok(StepN(p, Len("ANY")), [t |-> "ANY"])
  ELSE Let(p.cursor, LAMBDA cur :
       Let(parseMixed(p), LAMBDA m :
          IF ~m.err THEN m
          ELSE parseChildren(Alt(setCursor(m.p, cur), "parseContentSpec", cur, m.p.cursor))))

parseContentSpec(p) ==
  IF Tests(p, "EMPTY") THEN Ok(StepN(p, Len("EMPTY")), [t |-> "EMPTY"])
  ELSE IF Tests(p, "ANY") THEN Ok(StepN(p, Len("ANY")), [t |-> "ANY"])
  ELSE Let(p.cursor, LAMBDA cur :
       Let(parseMixed(p), LAMBDA m :
          IF ~m.err THEN m
          ELSE parseChildren(Alt(setCursor(m.p, cur), "parseContentSpec", cur, m.p.cursor))))

elementDeclBody(p) ==
  Let(Musts(p, "<!ELEMENT"), LAMBDA m :
     IF m.err THEN m
     ELSE Let(parseSpace(m.p), LAMBDA s :
             IF s.err THEN s
             ELSE Let(parseName(s.p), LAMBDA n :
                     IF n.err THEN Pass(n, Nil)
                     ELSE Let(parseSpace(n.p), LAMBDA s2 :
                             IF s2.err THEN s2
                             ELSE Let(parseContentSpec(s2.p), LAMBDA c :
                                     IF c.err THEN c
                                     ELSE Let(Must(skipSpace(c.p), ">"), LAMBDA e :
                                             IF e.err THEN e
                                             ELSE Ok(e.p, [t |-> "ElementDecl",
                                                           Name |-> n.val,
                                                           ContentSpec |-> c.val])))))))

parseElementDecl(p) ==
  labeled(p, "parseElementDecl",
          restoreParsing(elementDeclBody(setParsing(p, "Element Declaration")), p.parsing))

(***************************************************************************)
(* Attribute-list declarations                                             *)
(***************************************************************************)
AttTokenNode(tok) == [t |-> "AttToken", Token |-> tok]

\* the switch taking the first keyword that matches, without looking for a longer one
attToken_firstMatch(p) ==
  IF Tests(p, "ID") THEN "ID"
  ELSE IF Tests(p, "ENTITY") THEN "ENTITY"
  ELSE IF Tests(p, "ENTITIES") THEN "ENTITIES"
  ELSE IF Tests(p, "NMTOKEN") THEN "NMTOKEN"
  ELSE ""

\* the switch of parseAttType over the tokenized types
attToken(p) ==
  IF Tests(p, "ID")
  THEN IF Tests(p, "IDREF")
       THEN IF Tests(p, "IDREFS") THEN "IDREFS" ELSE "IDREF"
       ELSE "ID"
  ELSE IF Tests(p, "ENTITY") THEN "ENTITY"
  ELSE IF Tests(p, "ENTITIES") THEN "ENTITIES"
  ELSE IF Tests(p, "NMTOKEN")
  THEN IF Tests(p, "NMTOKENS") THEN "NMTOKENS" ELSE "NMTOKEN"
  ELSE ""

RECURSIVE nmtokenLoop(_, _)
nmtokenLoop(p, str) ==
  Let(Get(p), LAMBDA r :
     IF isNameChar(r) THEN nmtokenLoop(Step(p), str \o r)
     ELSE IF Len(str) = 0 THEN Fail(p, "", "empty Nmtoken")
     ELSE Ok(p, str))

parseNmtoken(p) == nmtokenLoop(p, "")

\* the loops of parseNotationType and parseEnum: S? ')' ends, else S? '|' S? item
RECURSIVE notationTypeLoop(_, _)
notationTypeLoop(p, names) ==
  Let(p.cursor, LAMBDA cur :
  Let(skipSpace(p), LAMBDA q :
     IF Test(q, ")") THEN Ok(Step(q), [t |-> "NotationType", Names |-> names])
     ELSE IF isEnd(q) THEN Fail(q, Nil, "expected ')'")
     ELSE Let(Must(skipSpace(setCursor(q, cur)), "|"), LAMBDA m :
             IF m.err THEN m
             ELSE Let(parseName(skipSpace(m.p)), LAMBDA n :
                     IF n.err THEN Pass(n, Nil)
                     ELSE IF n.p.cursor <= p.cursor THEN Hang(n.p)
                     ELSE notationTypeLoop(n.p, Append(names, n.val))))))

parseNotationType(p) ==
  Let(Musts(p, "NOTATION"), LAMBDA k :
     IF k.err THEN k
     ELSE Let(parseSpace(k.p), LAMBDA s :
             IF s.err THEN s
             ELSE Let(Must(s.p, "("), LAMBDA o :
                     IF o.err THEN o
                     ELSE Let(parseName(skipSpace(o.p)), LAMBDA n :
                             IF n.err THEN Pass(n, Nil)
                             ELSE notationTypeLoop(n.p, <<n.val>>)))))

RECURSIVE enumLoop(_, _)
enumLoop(p, cases) ==
  Let(p.cursor, LAMBDA cur :
  Let(skipSpace(p), LAMBDA q :
     IF Test(q, ")") THEN Ok(Step(q), [t |-> "Enum", Cases |-> cases])
     ELSE IF isEnd(q) THEN Fail(q, Nil, "expected ')'")
     ELSE Let(Must(skipSpace(setCursor(q, cur)), "|"), LAMBDA m :
             IF m.err THEN m
             ELSE Let(parseNmtoken(skipSpace(m.p)), LAMBDA n :
                     IF n.err THEN Pass(n, Nil)
                     ELSE IF n.p.cursor <= p.cursor THEN Hang(n.p)
                     ELSE enumLoop(n.p, Append(cases, n.val))))))

parseEnum(p) ==
  Let(Must(p, "("), LAMBDA o :
     IF o.err THEN o
     ELSE Let(parseNmtoken(skipSpace(o.p)), LAMBDA n :
             IF n.err THEN Pass(n, Nil)
             ELSE enumLoop(n.p, <<n.val>>)))

parseAttType(p) ==
  IF Tests(p, "CDATA") THEN Ok(StepN(p, Len("CDATA")), AttTokenNode("CDATA"))
  ELSE IF \/ Tests(p, "ID") \/ Tests(p, "IDREF") \/ Tests(p, "IDREFS")
          \/ Tests(p, "ENTITY") \/ Tests(p, "ENTITIES")
          \/ Tests(p, "NMTOKEN") \/ Tests(p, "NMTOKENS")
  THEN Ok(StepN(p, Len(attToken(p))), AttTokenNode(attToken(p)))
  ELSE IF Tests(p, "NOTATION") THEN parseNotationType(p)
  ELSE IF Test(p, "(") THEN parseEnum(p)
  ELSE Fail(p, Nil, "unknwon error")

DefaultDeclNode(type, value) == [t |-> "DefaultDecl", Type |-> type, AttValue |-> value]

\* a default value without the keyword given no Type
defaultDeclFixed_onlyWithKeyword(p) ==
  Let(IF Tests(p, "#FIXED") THEN parseSpace(StepN(p, Len("#FIXED"))) ELSE Ok(p, Nil), LAMBDA f :
     IF f.err THEN f
     ELSE Let(parseAttValue(f.p), LAMBDA v :
             IF v.err THEN v
             ELSE Ok(v.p, DefaultDeclNode(IF Tests(p, "#FIXED") THEN "#FIXED" ELSE "", v.val))))

\* (('#FIXED' S)? AttValue)
defaultDeclFixed(p) ==
  Let(IF Tests(p, "#FIXED") THEN parseSpace(StepN(p, Len("#FIXED"))) ELSE Ok(p, Nil), LAMBDA f :
     IF f.err THEN f
     ELSE Let(parseAttValue(f.p), LAMBDA v :
             IF v.err THEN v ELSE Ok(v.p, DefaultDeclNode("#FIXED", v.val))))

parseDefaultDecl(p) ==
  IF Tests(p, "#REQUIRED")
  THEN Ok(StepN(p, Len("#REQUIRED")), DefaultDeclNode("#REQUIRED", Nil))
  ELSE IF Tests(p, "#IMPLIED")
  THEN Ok(StepN(p, Len("#IMPLIED")), DefaultDeclNode("#IMPLIED", Nil))
  ELSE defaultDeclFixed(p)

parseAttDef(p) ==
  Let(parseSpace(p), LAMBDA s1 :
     IF s1.err THEN s1
     ELSE Let(parseName(s1.p), LAMBDA n :
             IF n.err THEN Pass(n, Nil)
             ELSE Let(parseSpace(n.p), LAMBDA s2 :
                     IF s2.err THEN s2
                     ELSE Let(parseAttType(s2.p), LAMBDA ty :
                             IF ty.err THEN ty
                             ELSE Let(parseSpace(ty.p), LAMBDA s3 :
                                     IF s3.err THEN s3
                                     ELSE Let(parseDefaultDecl(s3.p), LAMBDA d :
                                             IF d.err THEN d
                                             ELSE Ok(d.p, [t |-> "AttDef", Name |-> n.val,
                                                           Type |-> ty.val, Decl |-> d.val])))))))

RECURSIVE attlistLoop(_, _, _)
attlistLoop(p, name, defs) ==
  Let(p.cursor, LAMBDA cur :
  Let(skipSpace(p), LAMBDA q :
     IF Test(q, ">") THEN Ok(Step(q), [t |-> "Attlist", Name |-> name, Defs |-> defs])
     ELSE IF isEnd(q) THEN Fail(q, Nil, "reached EOF")
     ELSE Let(parseAttDef(setCursor(q, cur)), LAMBDA d :
             IF d.err THEN d
             ELSE IF d.p.cursor <= p.cursor THEN Hang(d.p)
             ELSE attlistLoop(d.p, name, Append(defs, d.val)))))

attlistBody(p) ==
  Let(Musts(p, "<!ATTLIST"), LAMBDA m :
     IF m.err THEN m
     ELSE Let(parseSpace(m.p), LAMBDA s :
             IF s.err THEN s
             ELSE Let(parseName(s.p), LAMBDA n :
                     IF n.err THEN Pass(n, Nil)
                     ELSE attlistLoop(n.p, n.val, <<>>))))

parseAttlist(p) ==
  labeled(p, "parseAttlist",
          restoreParsing(attlistBody(setParsing(p, "ATTLIST")), p.parsing))

(***************************************************************************)
(* Entity and notation declarations                                        *)
(***************************************************************************)
ExternalIDNode(type, pubid, system) ==
  [t |-> "ExternalID", Type |-> type, Pubid |-> pubid, System |-> system]

\* SystemLiteral, closing an ExternalID
externalIDSystem(p, type, pubid) ==
  Let(parseSystemLiteral(p), LAMBDA sys :
     IF sys.err THEN Pass(sys, Nil) ELSE Ok(sys.p, ExternalIDNode(type, pubid, sys.val)))

\* parseExternalID reading the public-id literal for both keywords
parseExternalID_pubidAlways(p) ==
  IF ~Tests(p, "SYSTEM") /\ ~Tests(p, "PUBLIC")
  THEN Fail(p, Nil, "expected 'SYSTEM' or 'PUBLIC'")
  ELSE Let(IF Tests(p, "SYSTEM") THEN "SYSTEM" ELSE "PUBLIC", LAMBDA type :
       Let(parseSpace(StepN(p, Len(type))), LAMBDA s :
          IF s.err THEN s
          ELSE Let(parsePubidLiteral(s.p), LAMBDA pub :
                  IF pub.err THEN Pass(pub, Nil)
                  ELSE Let(parseSpace(pub.p), LAMBDA s2 :
                          IF s2.err THEN s2
                          ELSE externalIDSystem(s2.p, type, pub.val)))))

parseExternalID(p) ==
  IF ~Tests(p, "SYSTEM") /\ ~Tests(p, "PUBLIC")
  THEN Fail(p, Nil, "expected 'SYSTEM' or 'PUBLIC'")
  ELSE Let(IF Tests(p, "SYSTEM") THEN "SYSTEM" ELSE "PUBLIC", LAMBDA type :
       Let(parseSpace(StepN(p, Len(type))), LAMBDA s :
          IF s.err THEN s
          ELSE IF type = "PUBLIC"
          THEN Let(parsePubidLiteral(s.p), LAMBDA pub :
                  IF pub.err THEN Pass(pub, Nil)
                  ELSE Let(parseSpace(pub.p), LAMBDA s2 :
                          IF s2.err THEN s2
                          ELSE externalIDSystem(s2.p, type, pub.val)))
          ELSE externalIDSystem(s.p, type, "")))

parseNData(p) ==
  Let(parseSpace(p), LAMBDA s :
     IF s.err THEN Pass(s, "")
     ELSE Let(Musts(s.p, "NDATA"), LAMBDA k :
             IF k.err THEN Pass(k, "")
             ELSE Let(parseSpace(k.p), LAMBDA s2 :
                     IF s2.err THEN Pass(s2, "") ELSE parseName(s2.p))))

\* the definitions return (value, ext, ndata) as one record
EntityDefValue(value, ext, ndata) == [Value |-> value, ExtID |-> ext, NData |-> ndata]

parseEntityDef(p) ==
  IF Test(p, "'") \/ Test(p, "\"")
  THEN Let(parseEntityValue(p), LAMBDA v :
          IF v.err THEN Pass(v, EntityDefValue(Nil, Nil, ""))
          ELSE Ok(v.p, EntityDefValue(v.val, Nil, "")))
  ELSE IF Tests(p, "SYSTEM") \/ Tests(p, "PUBLIC")
  THEN Let(parseExternalID(p), LAMBDA ext :
          IF ext.err THEN Pass(ext, EntityDefValue(Nil, Nil, ""))
          ELSE Let(ext.p.cursor, LAMBDA cur :
               Let(parseNData(ext.p), LAMBDA nd :
                  IF nd.err THEN Ok(setCursor(nd.p, cur), EntityDefValue(Nil, ext.val, nd.val))
                  ELSE Ok(nd.p, EntityDefValue(Nil, ext.val, nd.val)))))
  ELSE Fail(p, EntityDefValue(Nil, Nil, ""), "unexpected char")

\* PEDef read by the code of EntityDef, NDataDecl included
parsePEDef_asEntityDef(p) == parseEntityDef(p)

parsePEDef(p) ==
  IF Test(p, "'") \/ Test(p, "\"")
  THEN Let(parseEntityValue(p), LAMBDA v :
          IF v.err THEN Pass(v, EntityDefValue(Nil, Nil, ""))
          ELSE Ok(v.p, EntityDefValue(v.val, Nil, "")))
  ELSE IF Tests(p, "SYSTEM") \/ Tests(p, "PUBLIC")
  THEN Let(parseExternalID(p), LAMBDA ext :
          IF ext.err THEN Pass(ext, EntityDefValue(Nil, Nil, ""))
          ELSE Ok(ext.p, EntityDefValue(Nil, ext.val, "")))
  ELSE Fail(p, EntityDefValue(Nil, Nil, ""), "unexpected char")

\* parseEntity from the Name on
entityNamed(p, type) ==
  Let(parseName(p), LAMBDA n :
     IF n.err THEN Pass(n, Nil)
     ELSE Let(parseSpace(n.p), LAMBDA s :
             IF s.err THEN s
             ELSE Let(IF type = "PE" THEN parsePEDef(s.p) ELSE parseEntityDef(s.p), LAMBDA d :
                     IF d.err THEN Pass(d, Nil)
                     ELSE Let(Must(skipSpace(d.p), ">"), LAMBDA e :
                             IF e.err THEN e
                             ELSE Ok(e.p, [t |-> "Entity", Type |-> type, Name |-> n.val,
                                           Value |-> d.val.Value, ExtID |-> d.val.ExtID,
                                           NData |-> d.val.NData])))))

entityBody(p) ==
  Let(Musts(p, "<!ENTITY"), LAMBDA m :
     IF m.err THEN m
     ELSE Let(parseSpace(m.p), LAMBDA s :
             IF s.err THEN s
             ELSE IF Test(s.p, "%")
             THEN Let(parseSpace(Step(s.p)), LAMBDA s2 :
                     IF s2.err THEN s2 ELSE entityNamed(s2.p, "PE"))
             ELSE entityNamed(s.p, "GE")))

parseEntity(p) ==
  labeled(p, "parseEntity",
          restoreParsing(entityBody(setParsing(p, "Entity Declaration")), p.parsing))

\* ( S SystemLiteral )? leaving the cursor where the attempt failed
notationOptSystem_noRestore(p, pubid) ==
  Let(parseSpace(p), LAMBDA s :
     IF s.err THEN Ok(s.p, ExternalIDNode("PUBLIC", pubid, ""))
     ELSE Let(parseSystemLiteral(s.p), LAMBDA sys :
             IF sys.err THEN Ok(sys.p, ExternalIDNode("PUBLIC", pubid, ""))
             ELSE Ok(sys.p, ExternalIDNode("PUBLIC", pubid, sys.val))))

\* ( S SystemLiteral )? after the public-id literal of a NOTATION
notationOptSystem(p, pubid) ==
  Let(p.cursor, LAMBDA cur :
  Let(parseSpace(p), LAMBDA s :
     IF s.err THEN Ok(setCursor(s.p, cur), ExternalIDNode("PUBLIC", pubid, ""))
     ELSE Let(parseSystemLiteral(s.p), LAMBDA sys :
             IF sys.err THEN Ok(setCursor(sys.p, cur), ExternalIDNode("PUBLIC", pubid, ""))
             ELSE Ok(sys.p, ExternalIDNode("PUBLIC", pubid, sys.val)))))

notationExternalID(p) ==
  IF ~Tests(p, "SYSTEM") /\ ~Tests(p, "PUBLIC")
  THEN Fail(p, Nil, "expected 'SYSTEM' or 'PUBLIC'")
  ELSE Let(IF Tests(p, "SYSTEM") THEN "SYSTEM" ELSE "PUBLIC", LAMBDA type :
       Let(parseSpace(StepN(p, Len(type))), LAMBDA s :
          IF s.err THEN s
          ELSE IF type = "PUBLIC"
          THEN Let(parsePubidLiteral(s.p), LAMBDA pub :
                  IF pub.err THEN Pass(pub, Nil) ELSE notationOptSystem(pub.p, pub.val))
          ELSE externalIDSystem(s.p, type, "")))

notationBody(p) ==
  Let(Musts(p, "<!NOTATION"), LAMBDA m :
     IF m.err THEN m
     ELSE Let(parseSpace(m.p), LAMBDA s :
             IF s.err THEN s
             ELSE Let(parseName(s.p), LAMBDA n :
                     IF n.err THEN Pass(n, Nil)
                     ELSE Let(parseSpace(n.p), LAMBDA s2 :
                             IF s2.err THEN s2
                             ELSE Let(notationExternalID(s2.p), LAMBDA ext :
                                     IF ext.err THEN ext
                                     ELSE Let(Must(skipSpace(ext.p), ">"), LAMBDA e :
                                             IF e.err THEN e
                                             ELSE Ok(e.p, [t |-> "Notation", Name |-> n.val,
                                                           ExtID |-> ext.val])))))))

parseNotation(p) ==
  labeled(p, "parseNotation",
          restoreParsing(notationBody(setParsing(p, "NOTATION")), p.parsing))

(***************************************************************************)
(* Document type declaration, prolog, document                             *)
(***************************************************************************)
isMarkupStart(p) ==
  \/ Tests(p, "<!ELEMENT") \/ Tests(p, "<!ATTLIST") \/ Tests(p, "<!ENTITY")
  \/ Tests(p, "<!NOTATION") \/ Tests(p, "<?") \/ Tests(p, "<!--")

markupBody(p) ==
  IF Tests(p, "<!ELEMENT") THEN parseElementDecl(p)
  ELSE IF Tests(p, "<!ATTLIST") THEN parseAttlist(p)
  ELSE IF Tests(p, "<!ENTITY") THEN parseEntity(p)
  ELSE IF Tests(p, "<!NOTATION") THEN parseNotation(p)
  ELSE IF Tests(p, "<?") THEN parsePI(p)
  ELSE IF Tests(p, "<!--") THEN parseComment(p)
  ELSE Fail(p, Nil, "unknown markup")

parseMarkup(p) ==
  labeled(p, "parseMarkup",
          restoreParsing(markupBody(setParsing(p, "markup")), p.parsing))

DOCTypeNode(name, ext, markups, peref) ==
  [t |-> "DOCType", Name |-> name, ExtID |-> ext, Markups |-> markups, PERef |-> peref]

\* the internal subset: (markupdecl | PEReference | S)*
RECURSIVE subsetLoop(_, _, _)
subsetNext(p, q, markups, peref) ==
  IF q.cursor <= p.cursor THEN Hang(q) ELSE subsetLoop(q, markups, peref)

\* the internal subset keeping the first parameter-entity reference
subsetLoop_keepFirst(p, markups, peref) ==
  IF isMarkupStart(p)
  THEN Let(parseMarkup(p), LAMBDA m :
          IF m.err THEN Pass(m, Nil)
          ELSE subsetNext(p, m.p, Append(markups, m.val), peref))
  ELSE IF Test(p, "%")
  THEN Let(parsePERef(p), LAMBDA r :
          IF r.err THEN r
          ELSE subsetNext(p, r.p, markups, IF peref = Nil THEN r.val ELSE peref))
  ELSE IF isSpace(Get(p)) THEN subsetNext(p, skipSpace(p), markups, peref)
  ELSE Ok(p, [Markups |-> markups, PERef |-> peref])

subsetLoop(p, markups, peref) ==
  IF isMarkupStart(p)
  THEN Let(parseMarkup(p), LAMBDA m :
          IF m.err THEN Pass(m, Nil)
          ELSE subsetNext(p, m.p, Append(markups, m.val), peref))
  ELSE IF Test(p, "%")
  THEN Let(parsePERef(p), LAMBDA r :
          IF r.err THEN r ELSE subsetNext(p, r.p, markups, r.val))
  ELSE IF isSpace(Get(p)) THEN subsetNext(p, skipSpace(p), markups, peref)
  ELSE Ok(p, [Markups |-> markups, PERef |-> peref])

\* parseDoctype from the optional '[' on
doctypeSubset(p, name, ext) ==
  Let(IF Test(p, "[")
             THEN Let(subsetLoop(Step(p), <<>>, Nil), LAMBDA l :
                     IF l.err THEN l
                     ELSE Let(Must(l.p, "]"), LAMBDA c :
                             IF c.err THEN c ELSE Ok(c.p, l.val)))
             ELSE Ok(p, [Markups |-> <<>>, PERef |-> Nil]), LAMBDA sub :
     IF sub.err THEN Pass(sub, Nil)
     ELSE Let(Must(skipSpace(sub.p), ">"), LAMBDA e :
             IF e.err THEN e
             ELSE Ok(e.p, DOCTypeNode(name, ext, sub.val.Markups, sub.val.PERef))))

doctypeBody(p) ==
  Let(Musts(p, "<!DOCTYPE"), LAMBDA m :
     IF m.err THEN m
     ELSE Let(parseSpace(m.p), LAMBDA s :
             IF s.err THEN s
             ELSE Let(parseName(s.p), LAMBDA n :
                     IF n.err THEN Pass(n, Nil)
                     ELSE Let(skipSpace(n.p), LAMBDA q :
                             IF Tests(q, "SYSTEM") \/ Tests(q, "PUBLIC")
                             THEN Let(parseExternalID(q), LAMBDA ext :
                                     IF ext.err THEN ext
                                     ELSE doctypeSubset(skipSpace(ext.p), n.val, ext.val))
                             ELSE doctypeSubset(q, n.val, Nil)))))

parseDoctype(p) ==
  labeled(p, "parseDoctype",
          restoreParsing(doctypeBody(setParsing(p, "DOCTYPE")), p.parsing))

PrologNode(decl, misc1, doctype, misc2) ==
  [t |-> "Prolog", XMLDecl |-> decl, Misc1 |-> misc1, DOCType |-> doctype, Misc2 |-> misc2]

\* parseProlog after the optional XML declaration
prologMisc(p, decl) ==
  Let(miscLoop(p, <<>>), LAMBDA m1 :
     IF m1.err THEN m1
     ELSE IF Tests(m1.p, "<!DOCTYPE")
     THEN Let(parseDoctype(m1.p), LAMBDA doc :
             IF doc.err THEN doc
             ELSE Let(miscLoop(doc.p, <<>>), LAMBDA m2 :
                     IF m2.err THEN m2
                     ELSE Ok(m2.p, PrologNode(decl, m1.val, doc.val, m2.val))))
     ELSE Ok(m1.p, PrologNode(decl, m1.val, Nil, <<>>)))

parseProlog(p) ==
  Let(skipSpace(p), LAMBDA q :
     IF Tests(q, "<?xml")
     THEN Let(parseXmlDecl(q), LAMBDA x :
             IF x.err THEN x ELSE prologMisc(x.p, x.val))
     ELSE prologMisc(q, Nil))

parse(p) ==
  Let(parseProlog(p), LAMBDA pro :
     IF pro.err THEN pro
     ELSE Let(parseElement(pro.p), LAMBDA el :
             IF el.err THEN el
             ELSE Let(miscLoop(el.p, <<>>), LAMBDA ms :
                     IF ms.err THEN ms
                     ELSE Ok(ms.p, [t |-> "XML", Prolog |-> pro.val, Element |-> el.val,
                                    Misc |-> ms.val]))))

(***************************************************************************)
(* Inputs.  A source text is the concatenation of a fixed first fragment   *)
(* and at most n further fragments drawn from one family.                  *)
(***************************************************************************)
RECURSIVE FragSeqs(_, _)
FragSeqs(T, n) ==
  IF n = 0 THEN {<<>>}
  ELSE Let(FragSeqs(T, n - 1), LAMBDA S : S \cup {Append(s, t) : s \in S, t \in T})

RECURSIVE Flatten(_)
Flatten(fs) == IF fs = <<>> THEN "" ELSE Head(fs) \o Flatten(Tail(fs))

Family(pre, T, n) == {<<pre>> \o fs : fs \in FragSeqs(T, n)}

RefFrags == {"#", "#x", "1", "f", "U", ";"}
DeclFrags == {" version='1.0'", " encoding=\"U-8\"", " standalone='yes'", "?>", " "}
ElemFrags == {"<a>", "<a/>", "</a>", "</b>", "</A>", "<a x='1'>"}
ContentFrags == {"t", " ", "&e;", "<!--c-->", "<b/>", "]]>"}
ContentFrags2 == {"<![CDATA[d]]>", "<?p i?>", "<!", "&", " t", "<b>"}
MixedFrags == {"#PCDATA", "|a", " | b ", ")", ")*"}
ChildrenFrags == {"a", "(a,c)", "|b", "| b", ",c", ", c", ")", ")*"}
AttTypeFrags == {"ID", "REF", "S", "NMTOKEN", "ENTITY", "ENTITIES", "CDATA"}
AttTypeFrags2 == {"NOTATION", " ", "(a", "|b", ")", "CDATA"}
LiteralFrags == {"\"", "'", "&#1;", "&e;", "%p;", "<", "t", "%"}
DocFrags == {"<?xml version='1.0'?>", "<!--c-->", " ", "<a/>", "<?p i?>", "<!DOCTYPE d>"}
DoctypeFrags ==
  {"<!ELEMENT a EMPTY>", "<!ATTLIST a x CDATA #IMPLIED>", "<!ENTITY e 'v'>", "%p;", " ", "]>"}
TargetFrags == {"x", "m", "l", "X", "ML", "sty", "le", "ht", "so"}
ExtFrags == {" ", "'p'", "\"s\"", "\"s'", ">"}
CommentFrags == {"c", "-", "--", "-->", ">", "\f"}
NotFrags == {"PUBLIC 'p'", "SYSTEM", " ", "'s'", "'s", ">"}
SpecFrags == {"(#PCDATA)", "*", "(a,c)", "(a, c)", "(a|b)", "(a| b)", ">", " "}
ContentSpecFrags == {"EMPTY", "ANY", "x", "(a)", "(#PCDATA)"}
GroupFrags == {"|b", ",c", ",(b|c)*", ")", "?", "*", "+"}
ContentFrags3 == {"t", "<b/>", "<!--c", "<![CDATA[d", "<?p", "&e", "</a>"}
TrailFrags == {"<!--c-->", "<?p i?>", " ", "<b/>", "t", "<!--c", "<?xml i?>"}
RootFrags == {"t", "<b/>", "&e", "<!--c", "<b>&e</b>", "<b><c><?p</c></b>", "</r>"}
DefaultFrags == {"#REQUIRED", "#IMPLIED", "#FIXED", " ", "\"v\"", "'v'", "x"}
SubsetFrags == {"%p;", "%q;", "<!--c-->", "<!ELEMENT a EMPTY>", " ", "]>"}
EntFrags == {"'v'", "SYSTEM 's'", "PUBLIC 'p' 's'", " NDATA n", " ", ">"}

Inputs ==
  Family("&", RefFrags, MaxTok + 1)
  \cup Family("<?xml", DeclFrags, MaxTok + 1)
  \cup Family("", ElemFrags, MaxTok)
  \cup Family("", ContentFrags, MaxTok)
  \cup Family("", ContentFrags2, MaxTok)
  \cup Family("(", MixedFrags, MaxTok + 1)
  \cup Family("(", ChildrenFrags, MaxTok)
  \cup Family("", AttTypeFrags, MaxTok)
  \cup Family("", AttTypeFrags2, MaxTok)
  \cup Family("\"", LiteralFrags, MaxTok)
  \cup Family("", DocFrags, MaxTok)
  \cup Family("<!DOCTYPE d [", DoctypeFrags, MaxTok)
  \cup Family("", TargetFrags, MaxTok)
  \cup Family("SYSTEM", ExtFrags, MaxTok)
  \cup Family("PUBLIC", ExtFrags, MaxTok + 1)
  \cup Family("<!--", CommentFrags, MaxTok)
  \cup Family("<!NOTATION n ", NotFrags, MaxTok + 1)
  \cup Family("<!ELEMENT a ", SpecFrags, MaxTok)
  \cup Family("", ContentSpecFrags, MaxTok)
  \cup Family("(a", GroupFrags, MaxTok)
  \cup Family("", ContentFrags3, MaxTok)
  \cup Family("<a/>", TrailFrags, MaxTok)
  \cup Family("<r>", RootFrags, MaxTok)
  \cup Family("", DefaultFrags, MaxTok)
  \cup Family("<!DOCTYPE d [", SubsetFrags, MaxTok)
  \cup Family("<!ENTITY e ", EntFrags, MaxTok)
  \cup Family("<!ENTITY % e ", EntFrags, MaxTok)

(***************************************************************************)
(* The state machine: NewParser(source), then one production is called     *)
(***************************************************************************)
NoRet == [p |-> [cursor |-> 0, parsing |-> "", alts |-> <<>>, exits |-> <<>>,
                hang |-> FALSE],
          err |-> FALSE, val |-> Nil, at |-> NoErr]

Init ==
  /\ frags \in Inputs
  /\ source = Flatten(frags)
  /\ cursor = 0
  /\ parsing = ""
  /\ op = ""
  /\ ret = NoRet

\* the parser as the call finds it
P0 == [cursor |-> cursor, parsing |-> parsing, alts |-> <<>>, exits |-> <<>>,
       hang |-> FALSE]

Call(name, r) ==
  /\ op = ""
  /\ op' = name
  /\ ret' = r
  /\ cursor' = ret'.p.cursor
  /\ parsing' = ret'.p.parsing
  /\ UNCHANGED <<source, frags>>

Next ==
  \/ Call("parse", parse(P0))
  \/ Call("parseProlog", parseProlog(P0))
  \/ Call("parseXmlDecl", parseXmlDecl(P0))
  \/ Call("parseVersion", parseVersion(P0))
  \/ Call("parseEq", parseEq(P0))
  \/ Call("parseVersionNum", parseVersionNum(P0))
  \/ Call("parseMisc", parseMisc(P0))
  \/ Call("parseSpace", parseSpace(P0))
  \/ Call("parseName", parseName(P0))
  \/ Call("parseEntityValue", parseEntityValue(P0))
  \/ Call("parseAttValue", parseAttValue(P0))
  \/ Call("parseSystemLiteral", parseSystemLiteral(P0))
  \/ Call("parsePubidLiteral", parsePubidLiteral(P0))
  \/ Call("parseComment", parseComment(P0))
  \/ Call("parsePI", parsePI(P0))
  \/ Call("parsePITarget", parsePITarget(P0))
  \/ Call("parseCDSect", parseCDSect(P0))
  \/ Call("parseDoctype", parseDoctype(P0))
  \/ Call("parseMarkup", parseMarkup(P0))
  \/ Call("parseStandalone", parseStandalone(P0))
  \/ Call("parseElement", parseElement(P0))
  \/ Call("parseAttribute", parseAttribute(P0))
  \/ Call("parseETag", parseETag(P0))
  \/ Call("parseContents", parseContents(P0))
  \/ Call("parseElementDecl", parseElementDecl(P0))
  \/ Call("parseContentSpec", parseContentSpec(P0))
  \/ Call("parseChildren", parseChildren(P0))
  \/ Call("parseCP", parseCP(P0))
  \/ Call("parseChoice", parseChoice(P0))
  \/ Call("parseSeq", parseSeq(P0))
  \/ Call("parseMixed", parseMixed(P0))
  \/ Call("parseAttlist", parseAttlist(P0))
  \/ Call("parseAttDef", parseAttDef(P0))
  \/ Call("parseAttType", parseAttType(P0))
  \/ Call("parseNotationType", parseNotationType(P0))
  \/ Call("parseEnum", parseEnum(P0))
  \/ Call("parseNmtoken", parseNmtoken(P0))
  \/ Call("parseDefaultDecl", parseDefaultDecl(P0))
  \/ Call("parseCharRef", parseCharRef(P0))
  \/ Call("parseReference", parseReference(P0))
  \/ Call("parseEntityRef", parseEntityRef(P0))
  \/ Call("parsePERef", parsePERef(P0))
  \/ Call("parseEntity", parseEntity(P0))
  \/ Call("parseEntityDef", parseEntityDef(P0))
  \/ Call("parsePEDef", parsePEDef(P0))
  \/ Call("parseExternalID", parseExternalID(P0))
  \/ Call("parseNData", parseNData(P0))
  \/ Call("parseEncoding", parseEncoding(P0))
  \/ Call("parseEncName", parseEncName(P0))
  \/ Call("parseNotation", parseNotation(P0))
  \/ Call("parseQuote", parseQuote(P0))

Spec == Init /\ [][Next]_vars

(***************************************************************************)
(* The scanner primitives on their own: Test, Tests, Must and Musts are    *)
(* applied to a parser whose cursor is anywhere in the source, with an     *)
(* argument from a small set; the argument, the cursor and the label       *)
(* before the call are kept with the result.                               *)
(***************************************************************************)
ScanFrags == {"<", "é", "a"}

ScanChars == {"<", "é", "a"}

ScanStrings == {"<", "é", "a", "<é", "é<", "<a"}

ScanLabels == {"", "Comment"}

ScanInit ==
  /\ frags \in Family("", ScanFrags, MaxTok)
  /\ source = Flatten(frags)
  /\ cursor \in 0..Len(source)
  /\ parsing \in ScanLabels
  /\ op = ""
  /\ ret = NoRet

scanned(arg, res) == [arg |-> arg, from |-> cursor, label |-> parsing, res |-> res]

ScanNext ==
  \/ \E r \in ScanChars : Call("Test", Ok(P0, scanned(r, Test(P0, r))))
  \/ \E str \in ScanStrings : Call("Tests", Ok(P0, scanned(str, Tests(P0, str))))
  \/ \E r \in ScanChars : Call("Must", Pass(Must(P0, r), scanned(r, Nil)))
  \/ \E str \in ScanStrings : Call("Musts", Pass(Musts(P0, str), scanned(str, Nil)))

ScanSpec == ScanInit /\ [][ScanNext]_vars

(***************************************************************************)
(* Properties                                                              *)
(***************************************************************************)
called(name) == op = name

returned == op # ""

succeeded(name) == op = name /\ ~ret.err

failed(name) == op = name /\ ret.err

StartsWith(str, pre) == Len(pre) <= Len(str) /\ SubSeq(str, 1, Len(pre)) = pre

EndsWith(str, suf) ==
  Len(suf) <= Len(str) /\ SubSeq(str, Len(str) - Len(suf) + 1, Len(str)) = suf

\* the text consumed by the call
consumed == SubSeq(source, 1, cursor)

\* C1, as claimed: a production that returns an error leaves the cursor at the
\* value it had on entry (0, the cursor of a new parser).
C1_CursorRestoredOnError == (returned /\ ret.err) => cursor = 0

\* C1, amended: a production that returns an error leaves the cursor where the
\* failure was detected, which is the position the returned diagnostic carries
\* and is never before the entry position; it does not move it back.
C1_CursorStaysAtFailure == (returned /\ ret.err) => (cursor = ret.at.pos /\ cursor >= 0)

\* parseEntityRef fails on "&;" after consuming the "&"
C1_Witness == failed("parseEntityRef") /\ source = "&;" /\ cursor = 1 /\ ret.at.pos = 1

\* C2: whenever the first of two ordered alternatives failed, the second one
\* starts at the cursor at which the first one started (parseContentSpec,
\* parseChildren, parseCP, parseReference, parseEntityValue, parseContents).
C2_SecondAlternativeAtStart ==
  \A i \in 1..Len(ret.p.alts) : ret.p.alts[i].second = ret.p.alts[i].first

\* parseContentSpec on "((a,c))": Mixed failed after "(", the nested Choice after "(a"
C2_Witness ==
  /\ called("parseContentSpec")
  /\ \E i \in 1..Len(ret.p.alts) :
       /\ ret.p.alts[i].prod = "parseContentSpec"
       /\ ret.p.alts[i].failed > ret.p.alts[i].first
       /\ ret.p.alts[i].second = ret.p.alts[i].first
  /\ \E i \in 1..Len(ret.p.alts) :
       /\ ret.p.alts[i].prod = "parseCP"
       /\ ret.p.alts[i].failed > ret.p.alts[i].first

\* the input is the prefix pre followed by fragments of T only
inFamily(pre, T) == frags[1] = pre /\ \A i \in 2..Len(frags) : frags[i] \in T

\* the fragments after the prefix
body == Tail(frags)

STags == {"<a>", "<a x='1'>"}

OtherETags == {"</b>", "</A>"}

\* What a sequence of tags of element a is, read from the outermost start-tag:
\* "done" when the element opened first is closed by its own end-tag (or is an
\* empty-element tag), "mismatch" when an open element meets the end-tag of
\* another name, "none" when the text does not start with a start-tag and
\* "open" when it ends before the first element is closed.
RECURSIVE tagScan(_, _, _)
tagScan(fs, i, depth) ==
  IF i > Len(fs) THEN (IF depth = 0 THEN "none" ELSE "open")
  ELSE IF fs[i] \in STags THEN tagScan(fs, i + 1, depth + 1)
  ELSE IF fs[i] = "<a/>" THEN (IF depth = 0 THEN "done" ELSE tagScan(fs, i + 1, depth))
  ELSE IF depth = 0 THEN "none"
  ELSE IF fs[i] \in OtherETags THEN "mismatch"
  ELSE IF depth = 1 THEN "done"
  ELSE tagScan(fs, i + 1, depth - 1)

\* C3: parseElement fails whenever an end-tag's name differs from the name of
\* the start-tag it closes, compared exactly and case-sensitively ("<a></b>",
\* "<a></A>"); "<a></a>" and "<a/>" both succeed with Name a and no Contents
\* and differ only in IsEmptyTag; a returned element with a start-tag was
\* closed by the end-tag of its own name.
C3_EndTagNameMustMatch ==
  (called("parseElement") /\ inFamily("", ElemFrags)) =>
    /\ tagScan(body, 1, 0) = "mismatch" => ret.err
    /\ tagScan(body, 1, 0) = "done" => ~ret.err
    /\ source \in {"<a></b>", "<a></A>"} =>
         ret.at.msg = "EndTag name does not match with StartTag name"
    /\ source = "<a></a>" => ret.val = ElementNode("a", <<>>, <<>>, FALSE)
    /\ source = "<a/>" => ret.val = ElementNode("a", <<>>, <<>>, TRUE)
    /\ (~ret.err /\ ~ret.val.IsEmptyTag) =>
         EndsWith(consumed, "</" \o ret.val.Name \o ">")

\* parseElement rejected "<a></A>": the names differ only in case
C3_Witness ==
  /\ failed("parseElement")
  /\ source = "<a></A>"
  /\ ret.at.msg = "EndTag name does not match with StartTag name"
  /\ cursor = 7

\* C4: every call returns (for parse: an XML document or an error) without any loop
\* having made an iteration that neither exits nor advances the cursor, and
\* every loop has stopped at the end of the input (at most one unconditional
\* step beyond it, as parseSystemLiteral makes on an unclosed literal).
C4_LoopsAdvanceAndEnd ==
  returned =>
    /\ ~ret.p.hang
    /\ cursor <= Len(source) + 1
    /\ called("parse") => (ret.err \/ ret.val.t = "XML")

\* parse returned a document after the Misc loops went over comments, a
\* processing instruction or white space and reached the end of the input
C4_Witness ==
  /\ succeeded("parse")
  /\ ret.val.t = "XML"
  /\ cursor = Len(source)
  /\ \E i \in 2..Len(frags) : frags[i] \in {"<!--c-->", " ", "<?p i?>"}

\* the index of the first fragment equal to x, 0 when there is none
RECURSIVE firstIndex(_, _, _)
firstIndex(fs, x, i) ==
  IF i > Len(fs) THEN 0 ELSE IF fs[i] = x THEN i ELSE firstIndex(fs, x, i + 1)

notSpace(f) == f # " "

VerFrag == " version='1.0'"

EncFrag == " encoding=\"U-8\""

StdFrag == " standalone='yes'"

\* the declarations written before the first "?>", white space between them left out
declItems ==
  SelectSeq(SubSeq(body, 1, firstIndex(body, "?>", 1) - 1), notSpace)

\* C5: parseXmlDecl succeeds exactly on version, then optionally encoding, then
\* optionally standalone, then "?>": the four combinations succeed with the
\* absent fields at their zero values ("" and false); a declaration without
\* version, with standalone before encoding, or with anything else fails.
C5_XmlDeclOrderAndDefaults ==
  (called("parseXmlDecl") /\ inFamily("<?xml", DeclFrags)) =>
    IF firstIndex(body, "?>", 1) = 0 THEN ret.err
    ELSE /\ declItems = <<VerFrag>> => ret.val = XMLDeclNode("1.0", "", FALSE)
         /\ declItems = <<VerFrag, EncFrag>> => ret.val = XMLDeclNode("1.0", "U-8", FALSE)
         /\ declItems = <<VerFrag, StdFrag>> => ret.val = XMLDeclNode("1.0", "", TRUE)
         /\ declItems = <<VerFrag, EncFrag, StdFrag>> =>
              ret.val = XMLDeclNode("1.0", "U-8", TRUE)
         /\ ret.err <=> declItems \notin {<<VerFrag>>, <<VerFrag, EncFrag>>,
                                          <<VerFrag, StdFrag>>,
                                          <<VerFrag, EncFrag, StdFrag>>}
         /\ ~ret.err => cursor = Len(Flatten(SubSeq(frags, 1, firstIndex(body, "?>", 1) + 1)))

\* parseXmlDecl read a declaration with version and standalone but no encoding
C5_Witness ==
  /\ succeeded("parseXmlDecl")
  /\ source = "<?xml version='1.0' standalone='yes'?>"
  /\ ret.val = XMLDeclNode("1.0", "", TRUE)

\* the name a fragment "|a" or " | b " adds to a Mixed declaration
mixedName(f) == IF f = "|a" THEN "a" ELSE "b"

\* the names written from fragment i on, up to the first fragment that is not a name
RECURSIVE mixedNames(_, _)
mixedNames(fs, i) ==
  IF i > Len(fs) \/ fs[i] \notin {"|a", " | b "} THEN <<>>
  ELSE <<mixedName(fs[i])>> \o mixedNames(fs, i + 1)

\* the index of the fragment that has to close the declaration
mixedClose == 2 + Len(mixedNames(body, 2))

\* C6: parseMixed succeeds on "(#PCDATA)" with an empty name list, succeeds on
\* "(#PCDATA|n1|...|nk)*" (white space allowed around '|' and before ')') with
\* the names in source order, and fails when at least one name was read and
\* the character after ')' is not '*'.
C6_MixedNamesAndStar ==
  (called("parseMixed") /\ inFamily("(", MixedFrags)) =>
    IF Len(body) >= mixedClose /\ body[1] = "#PCDATA" /\ body[mixedClose] \in {")", ")*"}
    THEN IF mixedNames(body, 2) = <<>>
         THEN /\ ~ret.err
              /\ ret.val = MixedNode(<<>>)
              /\ cursor = Len("(#PCDATA)")
         ELSE IF body[mixedClose] = ")*"
         THEN /\ ~ret.err
              /\ ret.val = MixedNode(mixedNames(body, 2))
              /\ cursor = Len(Flatten(SubSeq(frags, 1, mixedClose + 1)))
         ELSE ret.err /\ ret.at.pos = Len(Flatten(SubSeq(frags, 1, mixedClose + 1)))
    ELSE ret.err

\* parseMixed read two names in their order and the closing ")*"
C6_Witness ==
  /\ succeeded("parseMixed")
  /\ source = "(#PCDATA|a | b )*"
  /\ ret.val = MixedNode(<<"a", "b">>)

AttKeywords ==
  {"CDATA", "ID", "IDREF", "IDREFS", "ENTITY", "ENTITIES", "NMTOKEN", "NMTOKENS"}

\* the keywords the source text starts with
matching == {k \in AttKeywords : StartsWith(source, k)}

\* k is the longest keyword the source text starts with
longest(k) == k \in matching /\ \A j \in matching : Len(j) <= Len(k)

\* C7: parseAttType resolves the keywords that are prefixes of one another by
\* longest match (IDREFS before IDREF before ID, NMTOKENS before NMTOKEN): the
\* token returned is the longest keyword at the cursor and the cursor advances
\* by exactly its length (6, 5, 2, 8, 7).
C7_LongestKeyword ==
  (called("parseAttType") /\ inFamily("", AttTypeFrags)) =>
    /\ \A k \in AttKeywords :
         longest(k) => (~ret.err /\ ret.val = AttTokenNode(k) /\ cursor = Len(k))
    /\ matching = {} => ret.err
    /\ StartsWith(source, "IDREFS") => (ret.val = AttTokenNode("IDREFS") /\ cursor = 6)
    /\ (StartsWith(source, "IDREF") /\ ~StartsWith(source, "IDREFS")) =>
         (ret.val = AttTokenNode("IDREF") /\ cursor = 5)
    /\ (StartsWith(source, "ID") /\ ~StartsWith(source, "IDREF")) =>
         (ret.val = AttTokenNode("ID") /\ cursor = 2)
    /\ StartsWith(source, "NMTOKENS") => (ret.val = AttTokenNode("NMTOKENS") /\ cursor = 8)
    /\ (StartsWith(source, "NMTOKEN") /\ ~StartsWith(source, "NMTOKENS")) =>
         (ret.val = AttTokenNode("NMTOKEN") /\ cursor = 7)

\* parseAttType took IDREFS, six code points, where ID and IDREF match too
C7_Witness ==
  /\ succeeded("parseAttType")
  /\ frags = <<"", "ID", "REF", "S">>
  /\ ret.val = AttTokenNode("IDREFS")
  /\ cursor = 6

HexDigits == Digits \cup {"a", "b", "c", "d", "e", "f", "A", "B", "C", "D", "E", "F"}

\* C8: parseCharRef accepts a hexadecimal reference "&#x" D ";" only if D is
\* not empty and each of its characters is a hex digit 0-9a-fA-F; a reference
\* with any other character among the digits ("&#x1U;") is rejected.
C8_HexDigitsOnly ==
  (succeeded("parseCharRef") /\ ret.val.Prefix = "&#x") =>
    /\ Len(ret.val.Value) > 0
    /\ \A i \in 1..Len(ret.val.Value) : SubSeq(ret.val.Value, i, i) \in HexDigits

\* the text of the fragments from i on that are in D, up to the first one that is not
RECURSIVE digitRun(_, _, _)
digitRun(fs, i, D) ==
  IF i > Len(fs) \/ fs[i] \notin D THEN "" ELSE fs[i] \o digitRun(fs, i + 1, D)

\* the reference "&" mark digits ";" made of the leading fragments, for digits of D
refOf(mark, D) == "&" \o mark \o digitRun(body, 2, D) \o ";"

\* the source text starts with a reference of that mark with at least one digit of D
isRef(mark, D) ==
  /\ Len(body) > 0
  /\ body[1] = mark
  /\ digitRun(body, 2, D) # ""
  /\ StartsWith(source, refOf(mark, D))

\* C9: for a non-empty decimal digit string D, "&#D;" parses to a CharRef with
\* prefix "&#" and Value D; for a non-empty hex digit string H, "&#xH;" parses
\* to a CharRef with prefix "&#x" and Value H, the digits kept as text; "&#;",
\* "&#x;" and a reference without the final ';' fail.
C9_CharRefValue ==
  (called("parseCharRef") /\ inFamily("&", RefFrags)) =>
    /\ isRef("#", {"1"}) =>
         /\ ~ret.err
         /\ ret.val = CharRefNode("&#", digitRun(body, 2, {"1"}))
         /\ cursor = Len(refOf("#", {"1"}))
    /\ isRef("#x", {"1", "f"}) =>
         /\ ~ret.err
         /\ ret.val = CharRefNode("&#x", digitRun(body, 2, {"1", "f"}))
         /\ cursor = Len(refOf("#x", {"1", "f"}))
    /\ (StartsWith(source, "&#;") \/ StartsWith(source, "&#x;")) => ret.err
    /\ firstIndex(body, ";", 1) = 0 => ret.err

\* parseCharRef read the hex reference "&#x1f;" and kept its digits as the text 1f
C9_Witness ==
  /\ succeeded("parseCharRef")
  /\ source = "&#x1f;"
  /\ ret.val = CharRefNode("&#x", "1f")
  /\ cursor = 6

\* fragments of character data, and fragments at which the content ends
TextFrags == {"t", " ", " t"}

Stoppers == {"]]>", "<!", "&", "<b>"}

\* the node of a fragment that is one complete construct
nodeOf(f) ==
  IF f = "&e;" THEN [t |-> "EntityRef", Name |-> "e"]
  ELSE IF f = "<!--c-->" THEN CommentNode("c")
  ELSE IF f = "<b/>" THEN ElementNode("b", <<>>, <<>>, TRUE)
  ELSE IF f = "<![CDATA[d]]>" THEN CDataNode("d")
  ELSE [t |-> "PI", Target |-> "p", Instruction |-> "i"]

hasNonSpace(str) ==
  \E i \in 1..Len(str) : SubSeq(str, i, i) \notin {" ", "\t", "\r", "\n"}

\* a maximal run of character data as it has to appear in the list
runEntry(run) == IF hasNonSpace(run) THEN <<Text(run)>> ELSE <<>>

\* the Contents of the fragments from i on, run being the character data
\* read since the last construct
RECURSIVE contentsOf(_, _, _)
contentsOf(fs, i, run) ==
  IF i > Len(fs) \/ fs[i] \in Stoppers THEN runEntry(run)
  ELSE IF fs[i] \in TextFrags THEN contentsOf(fs, i + 1, run \o fs[i])
  ELSE runEntry(run) \o <<nodeOf(fs[i])>> \o contentsOf(fs, i + 1, "")

\* the number of fragments before the one at which the content ends
RECURSIVE contentLength(_, _)
contentLength(fs, i) ==
  IF i > Len(fs) \/ fs[i] \in Stoppers THEN i - 1 ELSE contentLength(fs, i + 1)

\* C10: the Contents list of parseContents holds the constructs in document
\* order, holds no text entry made of white space only, and holds every
\* maximal run of character data between two constructs that has a character
\* other than white space exactly once and unchanged, its leading and
\* trailing white space included.
C10_ContentsInOrder ==
  (called("parseContents") /\ (inFamily("", ContentFrags) \/ inFamily("", ContentFrags2))) =>
    /\ ~ret.err
    /\ ret.val = contentsOf(body, 1, "")
    /\ \A i \in 1..Len(ret.val) : ret.val[i].t = "Text" => hasNonSpace(ret.val[i].Value)
    /\ cursor = Len(Flatten(SubSeq(body, 1, contentLength(body, 1))))

\* parseContents dropped the blank before the element b and kept the text
\* after it, in the order of the source " <b/>t"
C10_Witness ==
  /\ called("parseContents")
  /\ frags = <<"", " ", "<b/>", "t">>
  /\ ret.val = <<ElementNode("b", <<>>, <<>>, TRUE), Text("t")>>
  /\ cursor = 6

MiscFrags == {"<!--c-->", "<?p i?>", " "}

XmlFrag == "<?xml version='1.0'?>"

\* the index of the first fragment from i on that is not a Comment, a PI or
\* white space
RECURSIVE miscEnd(_, _)
miscEnd(fs, i) ==
  IF i > Len(fs) \/ fs[i] \notin MiscFrags THEN i ELSE miscEnd(fs, i + 1)

\* the Comment and PI nodes of the fragments i .. j - 1
RECURSIVE miscNodes(_, _, _)
miscNodes(fs, i, j) ==
  IF i >= j THEN <<>>
  ELSE (IF fs[i] = " " THEN <<>> ELSE <<nodeOf(fs[i])>>) \o miscNodes(fs, i + 1, j)

\* the index of the first fragment from i on that is not white space
RECURSIVE spaceEnd(_, _)
spaceEnd(fs, i) == IF i > Len(fs) \/ fs[i] # " " THEN i ELSE spaceEnd(fs, i + 1)

\* the layout of a document: leading space, XMLDecl?, Misc*, (doctypedecl Misc*)?,
\* element, Misc*
declAt == spaceEnd(frags, 2)

hasDecl == declAt <= Len(frags) /\ frags[declAt] = XmlFrag

misc1From == IF hasDecl THEN declAt + 1 ELSE declAt

misc1To == miscEnd(frags, misc1From)

hasDoctype == misc1To <= Len(frags) /\ frags[misc1To] = "<!DOCTYPE d>"

prologEnd == IF hasDoctype THEN miscEnd(frags, misc1To + 1) ELSE misc1To

hasRoot == prologEnd <= Len(frags) /\ frags[prologEnd] = "<a/>"

miscTo == miscEnd(frags, prologEnd + 1)

\* the length of the fragments before the one at index i
lengthBefore(i) == Len(Flatten(SubSeq(frags, 1, i - 1)))

onlyMisc(list) == \A i \in 1..Len(list) : list[i].t \in {"Comment", "PI"}

prologAsLaidOut(pro) ==
  /\ pro.Misc1 = miscNodes(frags, misc1From, misc1To)
  /\ pro.Misc2 = (IF hasDoctype THEN miscNodes(frags, misc1To + 1, prologEnd) ELSE <<>>)
  /\ (pro.DOCType # Nil) = hasDoctype

\* C11: each of the three Misc loops consumes white space without storing it,
\* so Prolog.Misc1, Prolog.Misc2 and XML.Misc hold only the Comment and PI
\* nodes, in source order; a loop ends without error at the first input that
\* is not a Comment, a PI or white space, and leaves the cursor at its start.
C11_MiscListsAndStop ==
  /\ (called("parseProlog") /\ inFamily("", DocFrags)) =>
       /\ ~ret.err
       /\ prologAsLaidOut(ret.val)
       /\ cursor = lengthBefore(prologEnd)
  /\ (called("parse") /\ inFamily("", DocFrags)) =>
       /\ ret.err = ~hasRoot
       /\ ~ret.err =>
            /\ prologAsLaidOut(ret.val.Prolog)
            /\ ret.val.Misc = miscNodes(frags, prologEnd + 1, miscTo)
            /\ cursor = lengthBefore(miscTo)
  /\ succeeded("parseProlog") => onlyMisc(ret.val.Misc1) /\ onlyMisc(ret.val.Misc2)
  /\ succeeded("parse") =>
       /\ onlyMisc(ret.val.Prolog.Misc1)
       /\ onlyMisc(ret.val.Prolog.Misc2)
       /\ onlyMisc(ret.val.Misc)

\* parseProlog on " <?p i?><?xml version='1.0'?>": the space is dropped, the PI
\* is kept, and the loop stops in front of the misplaced declaration, which it
\* had started to read as a PI
C11_Witness ==
  /\ called("parseProlog")
  /\ frags = <<"", " ", "<?p i?>", XmlFrag>>
  /\ ~ret.err
  /\ ret.val.Misc1 = <<nodeOf("<?p i?>")>>
  /\ cursor = 8

\* the names that are "xml" when upper and lower case are not told apart
XmlNames == {a \o b \o c : a \in {"x", "X"}, b \in {"m", "M"}, c \in {"l", "L"}}

\* C12: parsePITarget rejects a Name exactly when it is "xml" in any mix of
\* upper and lower case; every other Name, also one that merely contains one
\* of the letters x, m, l ("style", "html", "mso"), is accepted and returned.
C12_OnlyXmlRejected ==
  (called("parsePITarget") /\ inFamily("", TargetFrags) /\ body # <<>>) =>
    /\ ret.err = (source \in XmlNames)
    /\ ~ret.err => (ret.val = source /\ cursor = Len(source))

\* C13: the current-production label is restored on exit from every labeled
\* production (parseXmlDecl, parseComment, parsePI, parseDoctype, parseMarkup,
\* parseElement, parseElementDecl, parseAttlist, parseEntity, parseNotation):
\* the label after the call is the label before it, on success and on failure
\* and at any nesting depth; after parse and after every other operation the
\* label is the initial one.
C13_LabelRestored ==
  returned =>
    /\ parsing = ""
    /\ \A i \in 1..Len(ret.p.exits) : ret.p.exits[i].after = ret.p.exits[i].before

\* parseElement on "<a><a></b>": the inner element, called under the label
\* "a tag", failed on the end-tag and left the label "a tag"; the outer call
\* failed in turn and left the initial label
C13_Witness ==
  /\ failed("parseElement")
  /\ frags = <<"", "<a>", "<a>", "</b>">>
  /\ parsing = ""
  /\ \E i \in 1..Len(ret.p.exits) :
       /\ ret.p.exits[i].prod = "parseElement"
       /\ ret.p.exits[i].failed
       /\ ret.p.exits[i].before = "a tag"
       /\ ret.p.exits[i].after = "a tag"

\* the fragments of a literal opened by '"' up to its closing '"' (0: there is none)
litClose == firstIndex(body, "\"", 1)

litItems == SubSeq(body, 1, litClose - 1)

litHas(f) == \E i \in 1..Len(litItems) : litItems[i] = f

refNode(f) ==
  IF f = "&#1;" THEN CharRefNode("&#", "1")
  ELSE IF f = "&e;" THEN [t |-> "EntityRef", Name |-> "e"]
  ELSE [t |-> "PERef", Name |-> "p"]

textEntry(run) == IF run = "" THEN <<>> ELSE <<Text(run)>>

\* the segments of the fragments from i on, the fragments of Refs being
\* references and all others text; run is the text since the last reference
RECURSIVE segsOf(_, _, _, _)
segsOf(fs, i, run, Refs) ==
  IF i > Len(fs) THEN textEntry(run)
  ELSE IF fs[i] \in Refs
  THEN textEntry(run) \o <<refNode(fs[i])>> \o segsOf(fs, i + 1, "", Refs)
  ELSE segsOf(fs, i + 1, run \o fs[i], Refs)

noPERef(segs) == \A i \in 1..Len(segs) : segs[i].t # "PERef"

\* C14: parseAttValue fails whenever '<' stands between the opening quote and
\* the matching closing quote, and takes '%' as text, never making a PERef
\* segment; parseEntityValue takes '<' as text, makes a PERef segment of every
\* '%Name;' and fails on a '%' that is not followed by Name ';'.  Both fail
\* when the matching closing quote is missing.
C14_AttValueAndEntityValue ==
  /\ (called("parseAttValue") /\ inFamily("\"", LiteralFrags)) =>
       /\ ret.err = (litClose = 0 \/ litHas("<"))
       /\ ~ret.err =>
            /\ ret.val = [t |-> "AttValue", Segs |-> segsOf(litItems, 1, "", {"&#1;", "&e;"})]
            /\ noPERef(ret.val.Segs)
            /\ cursor = lengthBefore(litClose + 2)
  /\ (called("parseEntityValue") /\ inFamily("\"", LiteralFrags)) =>
       /\ ret.err = (litClose = 0 \/ litHas("%"))
       /\ ~ret.err =>
            /\ ret.val = [t |-> "EntityValue",
                          Segs |-> segsOf(litItems, 1, "", {"&#1;", "&e;", "%p;"})]
            /\ cursor = lengthBefore(litClose + 2)
  /\ succeeded("parseAttValue") => noPERef(ret.val.Segs)

\* parseEntityValue on '"<%p;"' returned the text "<" and the PERef p
C14_Witness ==
  /\ succeeded("parseEntityValue")
  /\ frags = <<"\"", "<", "%p;", "\"">>
  /\ ret.val.Segs = <<Text("<"), [t |-> "PERef", Name |-> "p"]>>
  /\ cursor = 6

\* the character of the source at index i (from 1), "" past its end
charAt(i) == IF i >= 1 /\ i <= Len(source) THEN SubSeq(source, i, i) ELSE ""

\* the first index from i on that does not hold white space
RECURSIVE afterSpace(_)
afterSpace(i) == IF charAt(i) \in {" ", "\t", "\r", "\n"} THEN afterSpace(i + 1) ELSE i

\* the first index from i on that holds the character q, 0 when there is none
RECURSIVE indexOf(_, _)
indexOf(q, i) ==
  IF i > Len(source) THEN 0 ELSE IF charAt(i) = q THEN i ELSE indexOf(q, i + 1)

\* SystemLiteral ::= ('"' [^"]* '"') | ("'" [^']* "'") starting at index i:
\* the index of its closing quote, 0 when there is no such literal
sysLitEnd(i) == IF charAt(i) \in {"'", "\""} THEN indexOf(charAt(i), i + 1) ELSE 0

\* the first index from i on that does not hold a PubidChar other than the quote q
RECURSIVE pubidRunEnd(_, _)
pubidRunEnd(q, i) ==
  IF charAt(i) # q /\ isPubidChar(charAt(i)) THEN pubidRunEnd(q, i + 1) ELSE i

\* PubidLiteral ::= '"' PubidChar* '"' | "'" (PubidChar - "'")* "'" starting
\* at index i: the index of its closing quote, 0 when there is no such literal
pubLitEnd(i) ==
  IF charAt(i) \in {"'", "\""} /\ charAt(pubidRunEnd(charAt(i), i + 1)) = charAt(i)
  THEN pubidRunEnd(charAt(i), i + 1) ELSE 0

between(i, j) == SubSeq(source, i + 1, j - 1)

\* an ExternalID whose keyword ends at index k: where its literals start and end
extPubAt(k) == afterSpace(k + 1)

extPubEnd(k) == IF extPubAt(k) > k + 1 THEN pubLitEnd(extPubAt(k)) ELSE 0

extSysAt(k, public) ==
  IF public THEN (IF extPubEnd(k) > 0 THEN afterSpace(extPubEnd(k) + 1) ELSE 0)
  ELSE afterSpace(k + 1)

extSysEnd(k, public) ==
  IF extSysAt(k, public) > (IF public THEN extPubEnd(k) ELSE k) + 1 /\ extSysAt(k, public) > 1
  THEN sysLitEnd(extSysAt(k, public)) ELSE 0

\* C15: an ExternalID returned by parseExternalID has a Pubid read from a
\* public-id literal exactly when its kind is PUBLIC: 'SYSTEM' S SystemLiteral
\* gives kind SYSTEM with System only, 'PUBLIC' S PubidLiteral S SystemLiteral
\* gives kind PUBLIC with both; without the white space after the keyword,
\* without the system literal after the public-id of PUBLIC, or with a quote
\* that is not closed by the same quote, parseExternalID fails.
C15_PubidIffPublic ==
  /\ (called("parseExternalID") /\ inFamily("SYSTEM", ExtFrags)) =>
       /\ ret.err = (extSysEnd(6, FALSE) = 0)
       /\ ~ret.err =>
            /\ ret.val = ExternalIDNode("SYSTEM", "",
                                        between(extSysAt(6, FALSE), extSysEnd(6, FALSE)))
            /\ cursor = extSysEnd(6, FALSE)
  /\ (called("parseExternalID") /\ inFamily("PUBLIC", ExtFrags)) =>
       /\ ret.err = (extSysEnd(6, TRUE) = 0)
       /\ ~ret.err =>
            /\ ret.val = ExternalIDNode("PUBLIC", between(extPubAt(6), extPubEnd(6)),
                                        between(extSysAt(6, TRUE), extSysEnd(6, TRUE)))
            /\ cursor = extSysEnd(6, TRUE)
  /\ succeeded("parseExternalID") =>
       /\ ret.val.Type \in {"SYSTEM", "PUBLIC"}
       /\ ret.val.Type = "SYSTEM" => ret.val.Pubid = ""

\* parseExternalID on PUBLIC 'p' "s" returned kind PUBLIC, Pubid p and System s
C15_Witness ==
  /\ succeeded("parseExternalID")
  /\ frags = <<"PUBLIC", " ", "'p'", " ", "\"s\"">>
  /\ ret.val = ExternalIDNode("PUBLIC", "p", "s")
  /\ cursor = 14

\* an entity declaration after its Name: the fragments before the first ">",
\* white space left out
entClose == firstIndex(body, ">", 1)

entItems == SelectSeq(SubSeq(body, 1, entClose - 1), notSpace)

ExtDefs == {"SYSTEM 's'", "PUBLIC 'p' 's'"}

\* EntityDef ::= EntityValue | (ExternalID NDataDecl?),  PEDef ::= EntityValue | ExternalID
entValid(general) ==
  /\ entClose > 0
  /\ \/ Len(entItems) = 1 /\ entItems[1] \in ExtDefs \cup {"'v'"}
     \/ general /\ Len(entItems) = 2 /\ entItems[1] \in ExtDefs /\ entItems[2] = " NDATA n"

entNode(type) ==
  [t |-> "Entity", Type |-> type, Name |-> "e",
   Value |-> IF entItems[1] = "'v'" THEN [t |-> "EntityValue", Segs |-> <<Text("v")>>]
             ELSE Nil,
   ExtID |-> IF entItems[1] = "SYSTEM 's'" THEN ExternalIDNode("SYSTEM", "", "s")
             ELSE IF entItems[1] = "PUBLIC 'p' 's'" THEN ExternalIDNode("PUBLIC", "p", "s")
             ELSE Nil,
   NData |-> IF Len(entItems) = 2 THEN "n" ELSE ""]

\* C16: an Entity returned by parseEntity has exactly one of a literal Value
\* and an ExtID; its NData is not empty only when it is a general entity with
\* an ExtID; a parameter entity never has NData, and a parameter-entity
\* declaration written with an NDATA clause is rejected.
C16_EntityShape ==
  /\ succeeded("parseEntity") =>
       /\ (ret.val.Value = Nil) # (ret.val.ExtID = Nil)
       /\ ret.val.NData # "" => (ret.val.Type = "GE" /\ ret.val.ExtID # Nil)
       /\ ret.val.Type = "PE" => ret.val.NData = ""
  /\ (called("parseEntity") /\ inFamily("<!ENTITY e ", EntFrags)) =>
       /\ ret.err = ~entValid(TRUE)
       /\ ~ret.err => (ret.val = entNode("GE") /\ cursor = lengthBefore(entClose + 2))
  /\ (called("parseEntity") /\ inFamily("<!ENTITY % e ", EntFrags)) =>
       /\ ret.err = ~entValid(FALSE)
       /\ ~ret.err => (ret.val = entNode("PE") /\ cursor = lengthBefore(entClose + 2))

\* parseEntity on "<!ENTITY % e SYSTEM 's' NDATA n>" failed in front of NDATA
C16_Witness ==
  /\ failed("parseEntity")
  /\ frags = <<"<!ENTITY % e ", "SYSTEM 's'", " NDATA n", ">">>
  /\ ret.at.pos = 24
  /\ cursor = 24

\* "-->" stands at index i of the source
closesAt(i) == charAt(i) = "-" /\ charAt(i + 1) = "-" /\ charAt(i + 2) = ">"

\* the text between "<!--" and index i
commentText(i) == SubSeq(source, 5, i - 1)

hasDashes(str) == \E k \in 1..(Len(str) - 1) : SubSeq(str, k, k + 1) = "--"

allChar(str) == \A k \in 1..Len(str) : isChar(SubSeq(str, k, k))

\* the source starts with "<!--" T "-->" for a text T of Chars without "--"
commentAsClaimed(i) ==
  closesAt(i) /\ ~hasDashes(commentText(i)) /\ allChar(commentText(i))

\* C17 as stated: parseComment succeeds exactly on '<!--' T '-->' where T has
\* no "--" and only Chars, and returns T unchanged; it fails when the input
\* does not start with "<!--", when a "--" inside is not followed by ">",
\* when T has a character that is not a Char, and when the input ends before
\* "-->".
C17_CommentExactly ==
  /\ (called("parseComment") /\ ~StartsWith(source, "<!--")) => ret.err
  /\ (called("parseComment") /\ inFamily("<!--", CommentFrags)) =>
       /\ ret.err = ~(\E i \in 5..Len(source) : commentAsClaimed(i))
       /\ ~ret.err =>
            /\ ret.val = CommentNode(commentText(cursor - 2))
            /\ closesAt(cursor - 2)

\* C17 amended: parseComment succeeds exactly on '<!--' T '-->' where T has no
\* "--", does not end with "-" and has only Chars, and returns T unchanged;
\* on every other input it fails.
C17_CommentNotEndingInDash ==
  /\ (called("parseComment") /\ ~StartsWith(source, "<!--")) => ret.err
  /\ (called("parseComment") /\ inFamily("<!--", CommentFrags)) =>
       /\ ret.err = ~(\E i \in 5..Len(source) :
                        commentAsClaimed(i) /\ ~EndsWith(commentText(i), "-"))
       /\ ~ret.err =>
            /\ ret.val = CommentNode(commentText(cursor - 2))
            /\ closesAt(cursor - 2)
            /\ commentAsClaimed(cursor - 2)
            /\ ~EndsWith(commentText(cursor - 2), "-")

\* parseComment on "<!--c--->", whose text "c-" has no "--", failed at the
\* "--" that follows c
C17_Witness ==
  /\ failed("parseComment")
  /\ frags = <<"<!--", "c", "-", "-->">>
  /\ ret.at.pos = 5

\* a NOTATION declaration of n: where its keyword starts and ends
notKwAt == afterSpace(14)

notIs(kw) == StartsWith(SubSeq(source, notKwAt, Len(source)), kw)

notKwEnd == notKwAt + 5

notHasSystem == notIs("SYSTEM") \/ (notIs("PUBLIC") /\ extSysEnd(notKwEnd, TRUE) > 0)

\* the index of the closing quote of its last literal: the system literal, or
\* the public-id literal when PUBLIC has no system literal; 0 when the
\* literals are not as the production wants them
notLitEnd ==
  IF notIs("SYSTEM") THEN extSysEnd(notKwEnd, FALSE)
  ELSE IF ~notIs("PUBLIC") THEN 0
  ELSE IF extSysEnd(notKwEnd, TRUE) > 0 THEN extSysEnd(notKwEnd, TRUE)
  ELSE extPubEnd(notKwEnd)

\* the index at which '>' is required
notGtAt == afterSpace(notLitEnd + 1)

notExtID ==
  IF notIs("SYSTEM")
  THEN ExternalIDNode("SYSTEM", "", between(extSysAt(notKwEnd, FALSE), notLitEnd))
  ELSE ExternalIDNode("PUBLIC", between(extPubAt(notKwEnd), extPubEnd(notKwEnd)),
                      IF notHasSystem THEN between(extSysAt(notKwEnd, TRUE), notLitEnd)
                      ELSE "")

\* C18: parseNotation accepts a PUBLIC notation that has a public-id literal
\* only: the system literal is optional, and when reading S SystemLiteral
\* after the public-id fails the cursor goes back to just after the public-id
\* literal, where S? '>' is then required; a SYSTEM notation needs its system
\* literal and fails without it.
C18_NotationSystemOptional ==
  (called("parseNotation") /\ inFamily("<!NOTATION n ", NotFrags)) =>
    /\ ret.err = ~(notLitEnd > 0 /\ charAt(notGtAt) = ">")
    /\ ~ret.err =>
         /\ ret.val = [t |-> "Notation", Name |-> "n", ExtID |-> notExtID]
         /\ cursor = notGtAt
    /\ (ret.err /\ notLitEnd > 0) => ret.at.pos = notGtAt - 1
    /\ (notIs("SYSTEM") /\ extSysEnd(notKwEnd, FALSE) = 0) => ret.err

\* parseNotation on "<!NOTATION n PUBLIC 'p' >": the space after the
\* public-id was read, no system literal followed, and the declaration was
\* accepted with an empty System
C18_Witness ==
  /\ succeeded("parseNotation")
  /\ frags = <<"<!NOTATION n ", "PUBLIC 'p'", " ", ">">>
  /\ ret.val.ExtID = ExternalIDNode("PUBLIC", "p", "")
  /\ cursor = 25

\* the content particles of the names a and x, without suffix
cpPair(x) == <<CPNode("a", Nil, ""), CPNode(x, Nil, "")>>

\* C19: parseChoice and parseSeq take optional white space on both sides of
\* every separator: "(a| b)" parses to the Choice of a and b like "(a|b)",
\* "(a, c)" to the Seq of a and c like "(a,c)", and an element declaration
\* whose content model has white space after a separator is accepted.
C19_SpaceAfterSeparator ==
  /\ (called("parseChoice") /\ \E s \in {"|b", "| b"} : frags = <<"(", "a", s, ")">>) =>
       /\ ~ret.err
       /\ ret.val = [t |-> "Choice", CPs |-> cpPair("b")]
  /\ (called("parseSeq") /\ \E s \in {",c", ", c"} : frags = <<"(", "a", s, ")">>) =>
       /\ ~ret.err
       /\ ret.val = [t |-> "Seq", CPs |-> cpPair("c")]
  /\ (called("parseElementDecl")
        /\ \E m \in {"(a,c)", "(a, c)", "(a|b)", "(a| b)"} : frags = <<"<!ELEMENT a ", m, ">">>) =>
       ~ret.err

\* the fragments after "(" spell a Mixed of the production
\* '(' S? '#PCDATA' (S? '|' S? Name)* S? ')*' | '(' S? '#PCDATA' S? ')'
mixedDerivable ==
  \/ body = <<"#PCDATA", ")">>
  \/ \E ns \in FragSeqs({"|a", " | b "}, 2) : body = <<"#PCDATA">> \o ns \o <<")*">>

\* C20: parseMixed accepts every input derivable from the Mixed production of
\* its doc comment and consumes all of it; so "(#PCDATA)*", the starred form
\* without names, is accepted with its "*" consumed, and
\* "<!ELEMENT a (#PCDATA)*>" parses to an element declaration with Mixed
\* content and no names.
C20_MixedConsumesStar ==
  /\ (called("parseMixed") /\ inFamily("(", MixedFrags) /\ mixedDerivable) =>
       /\ ~ret.err
       /\ ret.val.t = "Mixed"
       /\ cursor = Len(source)
  /\ (called("parseElementDecl") /\ frags = <<"<!ELEMENT a ", "(#PCDATA)", "*", ">">>) =>
       /\ ~ret.err
       /\ ret.val.ContentSpec = MixedNode(<<>>)

\* the parser as NewParser leaves it, before the call
atStart == NoRet.p

\* the call returned what r holds: outcome, value and cursor
sameOutcome(r) ==
  /\ ret.err = r.err
  /\ ~ret.err => (ret.val = r.val /\ cursor = r.p.cursor)

\* C21: parseContentSpec decides between its alternatives in a fixed order,
\* each from the same start: EMPTY when the input starts with "EMPTY",
\* otherwise ANY when it starts with "ANY", otherwise the Mixed node when
\* parseMixed succeeds there, otherwise the Children node that parseChildren
\* returns from the restored cursor; it fails only when all four fail, as on
\* "(a" and "(#PCDATA|a)".
C21_ContentSpecOrder ==
  /\ called("parseContentSpec") =>
       IF StartsWith(source, "EMPTY") THEN ~ret.err /\ ret.val = [t |-> "EMPTY"] /\ cursor = 5
       ELSE IF StartsWith(source, "ANY") THEN ~ret.err /\ ret.val = [t |-> "ANY"] /\ cursor = 3
       ELSE IF ~parseMixed(atStart).err
       THEN sameOutcome(parseMixed(atStart)) /\ ~ret.err /\ ret.val.t = "Mixed"
       ELSE sameOutcome(parseChildren(atStart)) /\ (~ret.err => ret.val.t = "Children")
  /\ (called("parseContentSpec") /\ source \in {"(a", "(#PCDATA|a)"}) => ret.err

\* parseContentSpec on "(a,c)": parseMixed had read "(" before it failed, and
\* the Children node was parsed from the start
C21_Witness ==
  /\ succeeded("parseContentSpec")
  /\ frags = <<"(", "a", ",c", ")">>
  /\ ret.val.t = "Children"
  /\ cursor = 5
  /\ \E i \in 1..Len(ret.p.alts) :
       /\ ret.p.alts[i].prod = "parseContentSpec"
       /\ ret.p.alts[i].first = 0
       /\ ret.p.alts[i].failed = 1
       /\ ret.p.alts[i].second = 0

\* a group "(a" sep* ")" suffix?: the separators with their particles
GroupSeps == {"|b", ",c", ",(b|c)*"}

grpClose == firstIndex(body, ")", 1)

grpSeps == SubSeq(body, 1, grpClose - 1)

\* the fragments spell a group: particles with their separators, then ")"
grpShaped == grpClose > 0 /\ \A i \in 1..Len(grpSeps) : grpSeps[i] \in GroupSeps

grpPipesOnly == \A i \in 1..Len(grpSeps) : grpSeps[i] = "|b"

grpCommasOnly == \A i \in 1..Len(grpSeps) : grpSeps[i] # "|b"

cpOf(sep) ==
  IF sep = "|b" THEN CPNode("b", Nil, "")
  ELSE IF sep = ",c" THEN CPNode("c", Nil, "")
  ELSE CPNode("", [t |-> "Choice", CPs |-> <<CPNode("b", Nil, ""), CPNode("c", Nil, "")>>], "*")

grpCPs == <<CPNode("a", Nil, "")>> \o [i \in 1..Len(grpSeps) |-> cpOf(grpSeps[i])]

grpNode == [t |-> IF grpPipesOnly THEN "Choice" ELSE "Seq", CPs |-> grpCPs]

grpHasSuffix == grpClose < Len(body) /\ body[grpClose + 1] \in {"?", "*", "+"}

grpSuffix == IF grpHasSuffix THEN body[grpClose + 1] ELSE ""

grpEnd == lengthBefore(grpClose + (IF grpHasSuffix THEN 3 ELSE 2))

\* C22: parseChildren, and parseCP for a nested group, try Choice first and
\* Seq second: a group with one particle or with '|' separators only is a
\* Choice, a group with ',' separators only is a Seq with the particles in
\* source order, a group with both '|' and ',' at one level is rejected, and
\* a '?', '*' or '+' right after ')' is consumed as the suffix, which is
\* absent otherwise.
C22_ChoiceBeforeSeq ==
  /\ (called("parseChildren") /\ inFamily("(a", GroupFrags) /\ grpShaped) =>
       /\ ret.err = ~(grpPipesOnly \/ grpCommasOnly)
       /\ ~ret.err => (ret.val = ChildrenNode(grpNode, grpSuffix) /\ cursor = grpEnd)
  /\ (called("parseCP") /\ inFamily("(a", GroupFrags) /\ grpShaped) =>
       /\ ret.err = ~(grpPipesOnly \/ grpCommasOnly)
       /\ ~ret.err => (ret.val = CPNode("", grpNode, grpSuffix) /\ cursor = grpEnd)

\* parseChildren on "(a,c)+" returned the Seq of a and c with the suffix '+'
C22_Witness ==
  /\ succeeded("parseChildren")
  /\ frags = <<"(a", ",c", ")", "+">>
  /\ ret.val = ChildrenNode([t |-> "Seq", CPs |-> cpPair("c")], "+")
  /\ cursor = 6

NameFrags == {"1", "f", "U"}

\* the Name spelled by the fragments after "&" when the first is a letter
refName == digitRun(body, 1, NameFrags)

\* C23: parseReference tries EntityRef first and CharRef only after EntityRef
\* failed and the cursor was put back: '&Name;' gives the EntityRef of that
\* name, on every input starting with "&#" the EntityRef attempt fails and
\* parseCharRef alone decides, and when both fail the error is the one of
\* the CharRef attempt.
C23_EntityRefBeforeCharRef ==
  /\ called("parseReference") =>
       IF ~parseEntityRef(atStart).err
       THEN sameOutcome(parseEntityRef(atStart)) /\ ret.val.t = "EntityRef"
       ELSE /\ sameOutcome(parseCharRef(atStart))
            /\ ret.err => ret.at = parseCharRef(atStart).at
            /\ ~ret.err => ret.val.t = "CharRef"
  /\ (called("parseReference") /\ StartsWith(source, "&#")) => parseEntityRef(atStart).err
  /\ (called("parseReference") /\ inFamily("&", RefFrags) /\ body # <<>>
        /\ body[1] \in {"f", "U"}) =>
       /\ ret.err = ~(Len(refName) < Len(body) /\ body[Len(refName) + 1] = ";")
       /\ ~ret.err =>
            /\ ret.val = [t |-> "EntityRef", Name |-> refName]
            /\ cursor = Len(refName) + 2
       /\ ret.err => (ret.at.pos = 0 /\ cursor = 0)

\* parseReference on "&#1;": the EntityRef attempt failed at 1, the CharRef
\* attempt started at 0 again and returned the reference
C23_Witness ==
  /\ succeeded("parseReference")
  /\ frags = <<"&", "#", "1", ";">>
  /\ ret.val = CharRefNode("&#", "1")
  /\ \E i \in 1..Len(ret.p.alts) :
       /\ ret.p.alts[i].prod = "parseReference"
       /\ ret.p.alts[i].failed = 1
       /\ ret.p.alts[i].second = 0

\* constructs that start with '&' or '<' and fail whatever follows them
BrokenFrags == {"<!--c", "<![CDATA[d", "<?p", "&e", "</a>"}

\* the number of fragments before the first broken construct
RECURSIVE soundLength(_, _)
soundLength(fs, i) ==
  IF i > Len(fs) \/ fs[i] \in BrokenFrags THEN i - 1 ELSE soundLength(fs, i + 1)

soundPart == SubSeq(body, 1, soundLength(body, 1))

\* the source from the cursor on
rest == SubSeq(source, cursor + 1, Len(source))

\* C24: parseContents never returns an error and stops only at the end of the
\* input, at "]]>" in character data, or at the first construct starting with
\* '&' or '<' whose production fails; then the cursor on return is where that
\* construct started (for "<!" after both the CDSect and the Comment attempt
\* failed), and everything parsed before it is in the result.
C24_ContentsStopAtFailure ==
  /\ called("parseContents") =>
       /\ ~ret.err
       /\ \/ cursor = Len(source)
          \/ StartsWith(rest, "]]>")
          \/ charAt(cursor + 1) \in {"&", "<"}
  /\ (called("parseContents") /\ inFamily("", ContentFrags3)) =>
       /\ cursor = Len(Flatten(soundPart))
       /\ ret.val = contentsOf(soundPart, 1, "")

\* parseContents on "t<![CDATA[d": the CDSect attempt ran to the end of the
\* input, the Comment attempt failed too, and the call returned the text t
\* with the cursor in front of "<!"
C24_Witness ==
  /\ called("parseContents")
  /\ frags = <<"", "t", "<![CDATA[d">>
  /\ ~ret.err
  /\ ret.val = <<Text("t")>>
  /\ cursor = 1
  /\ \E i \in 1..Len(ret.p.alts) :
       ret.p.alts[i].prod = "parseContents" /\ ret.p.alts[i].failed > 1
  /\ \E i \in 1..Len(ret.p.exits) :
       ret.p.exits[i].prod = "parseComment" /\ ret.p.exits[i].failed

\* the argument of a scanner primitive and the cursor and label it started from
scanArg == ret.val.arg

scanFrom == ret.val.from

scanLabel == ret.val.label

\* at least Len(s) code points remain from the starting cursor and they are s
matchesHere(s) ==
  /\ Len(s) <= Len(source) - scanFrom
  /\ \A k \in 1..Len(s) : charAt(scanFrom + k) = SubSeq(s, k, k)

\* the primitive left the cursor alone and reported the label and position
refusedHere ==
  /\ ret.err
  /\ cursor = scanFrom
  /\ ret.at.parsing = scanLabel
  /\ ret.at.pos = scanFrom

\* Must and Musts as stated, advancing by width on a match
mustAsStated(width) ==
  IF matchesHere(scanArg) THEN ~ret.err /\ cursor = scanFrom + width ELSE refusedHere

testsAsStated ==
  /\ (called("Test") \/ called("Tests")) => cursor = scanFrom /\ parsing = scanLabel
  /\ called("Test") => ret.val.res = matchesHere(scanArg)
  /\ called("Tests") => ret.val.res = matchesHere(scanArg)
  /\ called("Must") => mustAsStated(1)

\* C25: Test and Tests never move the cursor; Tests(s) is true exactly when at
\* least len(s) code points remain from the cursor and they equal s; Must(c)
\* and Musts(s) advance the cursor by exactly 1 and by the code-point length of
\* s when the match holds, and otherwise return an error carrying the current
\* label and position and leave the cursor unchanged.
C25_ScannerPrimitives ==
  /\ testsAsStated
  /\ called("Musts") => mustAsStated(Len(scanArg))

\* the same with Musts advancing by the length of s in bytes
ScannerPrimitivesInBytes ==
  /\ testsAsStated
  /\ called("Musts") => mustAsStated(len(scanArg))

\* the index of the first fragment after the root that is not a well-formed
\* Comment, a PI or white space
trailTo == miscEnd(body, 1)

\* the root element of the source parses where the prolog ends
rootParsed ==
  Let(parseProlog(atStart), LAMBDA pro : ~pro.err /\ ~parseElement(pro.p).err)

\* C26: once the root element has been parsed, parse returns a Document and no
\* error whatever follows: the trailing Misc loop stops at the first input
\* that is not a well-formed Comment, PI or white space run and restores the
\* cursor there; the rest of the input is neither consumed nor reported.
C26_TrailingInputIgnored ==
  /\ (called("parse") /\ rootParsed) => ~ret.err /\ ret.val.t = "XML"
  /\ (called("parse") /\ inFamily("<a/>", TrailFrags)) =>
       /\ ~ret.err
       /\ ret.val.Element = ElementNode("a", <<>>, <<>>, TRUE)
       /\ ret.val.Misc = miscNodes(body, 1, trailTo)
       /\ cursor = Len("<a/>") + Len(Flatten(SubSeq(body, 1, trailTo - 1)))

\* parse on "<a/> <!--c--><!--c<b/>": the comment after the root is kept, the
\* unclosed comment and the second element behind it are left where they are
C26_Witness ==
  /\ called("parse")
  /\ frags = <<"<a/>", " ", "<!--c-->", "<!--c">>
  /\ ~ret.err
  /\ ret.val.Misc = <<CommentNode("c")>>
  /\ cursor = 13
  /\ cursor < Len(source)
  /\ \E i \in 1..Len(ret.p.exits) :
       ret.p.exits[i].prod = "parseComment" /\ ret.p.exits[i].failed

\* children of the root that hold a malformed construct: a reference without
\* ';' and an unclosed comment at depth 1, the reference at depth 2, an
\* unclosed PI at depth 3
FaultFrags == {"&e", "<!--c", "<b>&e</b>", "<b><c><?p</c></b>"}

\* the index of the first fragment from i on that holds a fault or closes the root
RECURSIVE faultAt(_, _)
faultAt(fs, i) ==
  IF i > Len(fs) \/ fs[i] \in FaultFrags \cup {"</r>"} THEN i ELSE faultAt(fs, i + 1)

\* the root's content holds a fault before its end-tag
faultInRoot ==
  Let(faultAt(body, 1), LAMBDA i : i <= Len(body) /\ body[i] \in FaultFrags)

\* where the top-level child with the first fault starts
faultyChildStart == Len("<r>") + Len(Flatten(SubSeq(body, 1, faultAt(body, 1) - 1)))

\* some production other than parseElement failed during the call, under a label
\* of its own
innerFailure ==
  \E i \in 1..Len(ret.p.exits) :
    /\ ret.p.exits[i].failed
    /\ ret.p.exits[i].prod # "parseElement"

\* C27: when a construct in an element's content fails its diagnostic is
\* discarded: the content loop restores the cursor to the start of the
\* construct and the element fails in parseETag there.  For a root element r
\* with a malformed construct at any depth, parse returns a diagnostic at the
\* start of the root's top-level child that holds the fault, with the label
\* "r tag".
C27_FaultReportedAtRootChild ==
  (called("parse") /\ inFamily("<r>", RootFrags) /\ faultInRoot) =>
    /\ ret.err
    /\ ret.at.pos = faultyChildStart
    /\ ret.at.parsing = "r tag"
    /\ ret.at.msg = "expected literal"

\* parse on "<r>t<b><c><?p</c></b>": the PI at depth 3 failed under its own
\* label further on, and the diagnostic is the root's, in front of <b>
C27_Witness ==
  /\ called("parse")
  /\ frags = <<"<r>", "t", "<b><c><?p</c></b>">>
  /\ ret.err
  /\ ret.at.pos = 4
  /\ ret.at.parsing = "r tag"
  /\ innerFailure
  /\ \E i \in 1..Len(ret.p.exits) :
       ret.p.exits[i].prod = "parsePI" /\ ret.p.exits[i].failed

\* the first fragment of a default declaration ("" when there is none)
defaultHead == IF body = <<>> THEN "" ELSE body[1]

\* '#FIXED' is followed by white space
fixedSpaced == Len(body) >= 2 /\ body[2] = " "

\* the index where the default value has to stand
valueAt == IF defaultHead = "#FIXED" THEN spaceEnd(body, 2) ELSE 1

hasValue == valueAt <= Len(body) /\ body[valueAt] \in {"\"v\"", "'v'"}

\* the DefaultDecl of the value v, with or without the keyword
fixedV == DefaultDeclNode("#FIXED", [t |-> "AttValue", Segs |-> <<Text("v")>>])

\* C28: parseDefaultDecl returns Type REQUIRED for '#REQUIRED' and IMPLIED for
\* '#IMPLIED', both without AttValue; otherwise it returns Type FIXED with the
\* parsed AttValue whether or not '#FIXED' was there, so that '"v"' and
\* '#FIXED "v"' give equal nodes; '#FIXED' not followed by white space fails.
C28_DefaultDeclTypes ==
  (called("parseDefaultDecl") /\ inFamily("", DefaultFrags)) =>
    IF defaultHead = "#REQUIRED"
    THEN ~ret.err /\ ret.val = DefaultDeclNode("#REQUIRED", Nil) /\ cursor = 9
    ELSE IF defaultHead = "#IMPLIED"
    THEN ~ret.err /\ ret.val = DefaultDeclNode("#IMPLIED", Nil) /\ cursor = 8
    ELSE /\ ret.err = ~(hasValue /\ (defaultHead = "#FIXED" => fixedSpaced))
         /\ ~ret.err => ret.val = fixedV /\ cursor = lengthBefore(valueAt + 2)

\* parseDefaultDecl on '"v"', a default value without keyword, returned the
\* node that '#FIXED "v"' gives
C28_Witness ==
  /\ succeeded("parseDefaultDecl")
  /\ frags = <<"", "\"v\"">>
  /\ ret.val.Type = "#FIXED"
  /\ ret.val = fixedV
  /\ cursor = 3

\* the fragments of the internal subset up to its "]>" (0: it is not closed)
subsetClose == firstIndex(body, "]>", 1)

subsetItems == SubSeq(body, 1, subsetClose - 1)

PERefFrags == {"%p;", "%q;"}

perefOf(f) == [t |-> "PERef", Name |-> SubSeq(f, 2, 2)]

declOf(f) ==
  IF f = "<!--c-->" THEN CommentNode("c")
  ELSE [t |-> "ElementDecl", Name |-> "a", ContentSpec |-> [t |-> "EMPTY"]]

\* the declarations among the fragments from i on, in source order
RECURSIVE declsOf(_, _)
declsOf(fs, i) ==
  IF i > Len(fs) THEN <<>>
  ELSE (IF fs[i] \in PERefFrags \cup {" "} THEN <<>> ELSE <<declOf(fs[i])>>)
       \o declsOf(fs, i + 1)

\* the parameter-entity references among the fragments, in source order
perefsOf(fs) == SelectSeq(fs, LAMBDA f : f \in PERefFrags)

lastPERef(fs) ==
  Let(perefsOf(fs), LAMBDA refs :
     IF refs = <<>> THEN Nil ELSE perefOf(refs[Len(refs)]))

\* C29: in parseDoctype Markups holds the declarations of the internal subset
\* in source order, and the DOCType keeps one PERef: of several
\* parameter-entity references only the last one parsed is kept, and where it
\* stood among the declarations is not recorded.
C29_LastPERefOnly ==
  (called("parseDoctype") /\ inFamily("<!DOCTYPE d [", SubsetFrags)) =>
    /\ ret.err = (subsetClose = 0)
    /\ ~ret.err =>
         /\ ret.val = DOCTypeNode("d", Nil, declsOf(subsetItems, 1), lastPERef(subsetItems))
         /\ cursor = lengthBefore(subsetClose + 2)

\* parseDoctype on "<!DOCTYPE d [%p;%q;]>" kept the reference q; nothing of p
\* is left in the node
C29_Witness ==
  /\ succeeded("parseDoctype")
  /\ frags = <<"<!DOCTYPE d [", "%p;", "%q;", "]>">>
  /\ ret.val.Markups = <<>>
  /\ ret.val.PERef = [t |-> "PERef", Name |-> "q"]
  /\ cursor = Len(source)

====
